---- MODULE Spec2Model ----
(***************************************************************************)
(* A model of the distributed document filesystem: the coordinator        *)
(* (naming server), the storage nodes (storage servers) and the           *)
(* sentence/word engine.  The program is modelled subsystem by subsystem; *)
(* every subsystem has its own specification over the shared variables,   *)
(* the variables of the other subsystems staying at their initial value.  *)
(*                                                                         *)
(* C strings are sequences of one-character strings, so that they can be  *)
(* scanned the way the C code scans them.                                  *)
(***************************************************************************)
EXTENDS Integers, Sequences, FiniteSets, TLC

(***************************************************************************)
(* Bounds of the model                                                     *)
(***************************************************************************)
\* longest text handed to the sentence parser
MaxLen == 5
\* client connections the coordinator serves at the same time
NumConns == 3
\* access requests one coordinator process hands out before the model stops asking
MaxReq == 2
\* node records the coordinator creates before the model stops registering nodes
MaxServers == 3

(***************************************************************************)
(* Result codes (common/protocol.h)                                        *)
(***************************************************************************)
RESP_SUCCESS == 200
RESP_SS_INFO == 201
ERR_INVALID_REQUEST == 400
ERR_PERMISSION_DENIED == 403
ERR_FILE_NOT_FOUND == 404
ERR_FILE_EXISTS == 409
ERR_SENTENCE_OUT_OF_RANGE == 422
ERR_FILE_LOCKED == 423
ERR_REQUEST_NOT_FOUND == 428
ERR_SERVER_ERROR == 500
ERR_SS_UNAVAILABLE == 503
\* error_code of a frame that carries no reply yet (memset 0)
NO_REPLY == 0

VARIABLES
    \* ---- sentence engine (pure functions under test)
    content,          \* the text handed to parse_sentences
    sentences,        \* the result of parse_sentences
    parsed,           \* whether parse_sentences has run
    \* ---- coordinator: user registry and active sessions
    registered_users, \* the usernames of the user registry
    active_sessions,  \* the list of active sessions, newest first
    conn,             \* per client connection: the position of its handler task
    \* ---- coordinator: file registry and its persistence
    file_table,       \* the file records; per name the newest record comes first
    next_request_id,  \* the id of the next access request
    registry_dat,     \* the lines of <root>/naming_server/registry.dat, or NoFile
    ns_cwd,           \* the working directory the coordinator was started in
    ns_up,            \* whether the coordinator process runs
    \* ---- coordinator and nodes: node list, control channels, request tasks
    ns_build,         \* which coordinator is running: "modular" or "monolithic"
    storage_servers,  \* the node records, newest first
    ss_chan,          \* per node: the frames in flight on its control channel
    node_up,          \* per node: whether the node process runs
    node_files,       \* per node: the file names in its storage directory
    task,             \* per client connection: the request its handler is in
    hb,               \* the position of the heartbeat_monitor task
    \* ---- coordinator: fallbacks of READ
    cache,            \* the file names present in ./cache
    backups,          \* the <<node id, file name>> present in ./backups
    read_log,         \* what the last READ handler did
    \* ---- storage node: files, sentence locks, undo flags, WRITE sessions
    ss_build,         \* which node program runs: "monolithic" or "modular"
    storage_dir,      \* per file name: the text of the file in storage_dir, or NoFile
    undo_backup,      \* per file name: the text of backup_dir/<name>.backup, or NoFile
    backup_copy,      \* the file names that have a copy backup_dir/<name>
    locks,            \* the list of sentence locks, newest first
    undo_states,      \* the list of undo flags, newest first
    write_task,       \* per user: the position of the WRITE handler serving that user
    op_log,           \* per file name: the last two answered ETIRW/UNDO requests
    \* ---- coordinator: SEARCH
    search_cache,     \* the cached searches, newest first
    search_log,       \* the last SEARCH reply sent
    \* ---- coordinator: replies
    reply_log         \* the last request the coordinator turned away by itself

parseVars == <<content, sentences, parsed>>
sessVars == <<registered_users, active_sessions, conn>>
tableVars == <<file_table, next_request_id>>
diskVars == <<registry_dat, ns_cwd, ns_up>>
nodeVars == <<storage_servers, ss_chan, node_up, node_files, task, hb>>
readVars == <<ns_build, cache, backups, read_log>>
editVars == <<ss_build, storage_dir, undo_backup, backup_copy, locks, undo_states,
              write_task, op_log>>
searchVars == <<search_cache, search_log>>
vars == <<content, sentences, parsed, registered_users, active_sessions, conn,
          file_table, next_request_id, registry_dat, ns_cwd, ns_up,
          ns_build, storage_servers, ss_chan, node_up, node_files, task, hb,
          cache, backups, read_log,
          ss_build, storage_dir, undo_backup, backup_copy, locks, undo_states,
          write_task, op_log, search_cache, search_log, reply_log>>

\* what the actions of one subsystem leave alone
restOfParse == <<sessVars, tableVars, diskVars, nodeVars, readVars, editVars, searchVars, reply_log>>
restOfSess == <<parseVars, tableVars, diskVars, nodeVars, readVars, editVars, searchVars, reply_log>>
restOfAcl == <<parseVars, nodeVars, readVars, editVars, searchVars, reply_log>>
restOfShutdown == <<parseVars, readVars, editVars, search_log, reply_log, node_files>>
restOfRegistry == <<parseVars, diskVars, readVars, editVars, searchVars, reply_log,
                    next_request_id, registered_users, active_sessions>>
restOfCreate == <<parseVars, diskVars, readVars, editVars, search_log, reply_log,
                  next_request_id, registered_users, active_sessions>>
restOfDelete == <<parseVars, diskVars, readVars, editVars, searchVars,
                  next_request_id, registered_users, active_sessions>>

(***************************************************************************)
(* Initial values of each subsystem                                        *)
(***************************************************************************)
UserIds == {"alice", "bob"}
Conns == 1..NumConns

ParseIdle ==
    /\ content = <<>>
    /\ sentences = <<>>
    /\ parsed = FALSE

NoFile == "NoFile"

TableIdle ==
    /\ file_table = <<>>
    /\ next_request_id = 1
    /\ registry_dat = NoFile
    /\ ns_cwd = "root"
    /\ ns_up = TRUE

NodeIds == {"ss1", "ss2"}

IdleTask == [pc |-> "idle", filename |-> "", ss_id |-> "", closed |-> FALSE]

\* heartbeat_monitor in sleep(); while it waits for a ping, behind is the number
\* of records that follow the pinged one in the list
IdleHb == [pc |-> "sleep", ss_id |-> "", behind |-> 0, closed |-> FALSE]

NodesIdle ==
    /\ storage_servers = <<>>
    /\ ss_chan = [n \in NodeIds |-> [reqs |-> <<>>, resps |-> <<>>]]
    /\ node_up = [n \in NodeIds |-> FALSE]
    /\ node_files = [n \in NodeIds |-> {}]
    /\ task = [c \in Conns |-> IdleTask]
    /\ hb = IdleHb

NoRead == [reply |-> NO_REPLY, tried |-> <<>>, unreachable |-> FALSE,
           had_cache |-> FALSE, had_backup |-> FALSE, had_other |-> FALSE]

ReadIdle ==
    /\ ns_build = "modular"
    /\ cache = {}
    /\ backups = {}
    /\ read_log = NoRead

EditFiles == {"f1"}

\* no answered ETIRW or UNDO yet
NoOp == [op |-> "none", code |-> NO_REPLY, undone |-> FALSE]

IdleWrite == [pc |-> "idle", filename |-> "", sentence_num |-> 0, sentences |-> <<>>,
              words |-> <<>>, updates |-> 0, reply |-> NO_REPLY, word_index |-> 0]

EditIdle ==
    /\ ss_build = "monolithic"
    /\ storage_dir = [f \in EditFiles |-> NoFile]
    /\ undo_backup = [f \in EditFiles |-> NoFile]
    /\ backup_copy = {}
    /\ locks = <<>>
    /\ undo_states = <<>>
    /\ write_task = [u \in UserIds |-> IdleWrite]
    /\ op_log = [f \in EditFiles |-> <<NoOp, NoOp>>]

\* no SEARCH answered yet; n tells one reply from the next
NoSearch == [n |-> 0, username |-> "", pattern |-> <<>>, lines |-> <<>>]

NoReply == [n |-> 0, type |-> "", username |-> "", filename |-> "", code |-> NO_REPLY]

ReplyIdle == reply_log = NoReply

SearchIdle ==
    /\ search_cache = <<>>
    /\ search_log = NoSearch

SessInit ==
    /\ registered_users = {}
    /\ active_sessions = <<>>
    /\ conn = [c \in Conns |-> [pc |-> "closed", username |-> "unknown",
                                 reply |-> NO_REPLY, registering |-> FALSE]]

(***************************************************************************)
(* Sentence engine: storage_server/sentence_parser.c                       *)
(***************************************************************************)
Chars == {"a", " ", ".", "!"}

isspace(c) == c = " "

IsDelim(c) == c = "." \/ c = "!" \/ c = "?"

RECURSIVE StringsUpTo(_)
StringsUpTo(n) ==
    IF n = 0 THEN {<<>>}
    ELSE LET shorter == StringsUpTo(n - 1)
         IN  shorter \cup {Append(s, c) : s \in {t \in shorter : Len(t) = n - 1}, c \in Chars}

\* the first index >= p of s that holds no whitespace (Len(s)+1 at the end)
RECURSIVE SkipSpace(_, _)
SkipSpace(s, p) ==
    IF p <= Len(s) /\ isspace(s[p]) THEN SkipSpace(s, p + 1) ELSE p

\* the counting loop of parse_sentences: every delimiter counts one sentence,
\* and so does a trailing text without delimiter
RECURSIVE CountLoop(_, _, _, _)
CountLoop(s, p, count, in_sentence) ==
    IF p > Len(s) THEN (IF in_sentence THEN count + 1 ELSE count)
    ELSE IF IsDelim(s[p]) THEN CountLoop(s, p + 1, count + 1, FALSE)
    ELSE IF ~in_sentence /\ ~isspace(s[p]) THEN CountLoop(s, p + 1, count, TRUE)
    ELSE CountLoop(s, p + 1, count, in_sentence)

\* the extraction loop of parse_sentences: a sentence ends at every delimiter,
\* the whitespace after the delimiter is skipped
RECURSIVE ExtractLoop(_, _, _, _, _)
ExtractLoop(s, p, start, acc, count) ==
    IF p > Len(s) \/ Len(acc) >= count
    THEN IF Len(acc) < count /\ start <= Len(s)
         THEN Append(acc, SubSeq(s, start, Len(s)))
         ELSE acc
    ELSE IF IsDelim(s[p])
         THEN LET q == SkipSpace(s, p + 1)
              IN  ExtractLoop(s, q, q, Append(acc, SubSeq(s, start, p)), count)
         ELSE ExtractLoop(s, p + 1, start, acc, count)

parse_sentences(s) ==
    IF Len(s) = 0 \/ \A i \in 1..Len(s) : isspace(s[i]) THEN <<>>
    ELSE LET count == CountLoop(s, 1, 0, FALSE)
         IN  IF count = 0 THEN <<>> ELSE ExtractLoop(s, 1, 1, <<>>, count)

ParseInit ==
    /\ content \in StringsUpTo(MaxLen)
    /\ sentences = <<>>
    /\ parsed = FALSE
    /\ SessInit
    /\ TableIdle
    /\ NodesIdle
    /\ ReadIdle
    /\ EditIdle
    /\ SearchIdle
    /\ ReplyIdle

Parse ==
    /\ ~parsed
    /\ sentences' = parse_sentences(content)
    /\ parsed' = TRUE
    /\ UNCHANGED <<content, restOfParse>>

ParseNext == Parse

SpecParse == ParseInit /\ [][ParseNext]_vars

\* C7: text with two or more adjacent delimiters gets no sentence boundary at
\* that run: every boundary comes from a single delimiter, so the parser returns
\* at most one sentence more than the text has single delimiters.
IsSingleDelim(s, i) ==
    /\ IsDelim(s[i])
    /\ (i > 1 => ~IsDelim(s[i - 1]))
    /\ (i < Len(s) => ~IsDelim(s[i + 1]))

NumSingleDelims(s) == Cardinality({i \in 1..Len(s) : IsSingleDelim(s, i)})

C7_MultiDelimiterNotBoundary ==
    parsed => Len(sentences) <= NumSingleDelims(content) + 1

(***************************************************************************)
(* Coordinator: naming_server/user_session_manager.c and the registration  *)
(* part of handle_client (naming_server/naming_server_modular.c)           *)
(***************************************************************************)
\* register_user: the registry is append-only, a known user is not added twice
register_user(users, username) == users \cup {username}

\* find_active_session: TRUE when the list has an entry for the username
find_active_session(sess, username) ==
    \E i \in 1..Len(sess) : sess[i].username = username

\* a wrong add_active_session that inserts without looking
add_active_session_nocheck(sess, username, client_socket) ==
    [ok |-> TRUE,
     sessions |-> <<[username |-> username, client_socket |-> client_socket]>> \o sess]

\* add_active_session: under session_lock, refuse when the username has an entry,
\* else put the new entry at the head of the list
add_active_session(sess, username, client_socket) ==
    IF \E i \in 1..Len(sess) : sess[i].username = username
    THEN [ok |-> FALSE, sessions |-> sess]
    ELSE [ok |-> TRUE,
          sessions |-> <<[username |-> username, client_socket |-> client_socket]>> \o sess]

\* remove_active_session: unlink the first entry of the username
remove_active_session(sess, username) ==
    IF \E i \in 1..Len(sess) : sess[i].username = username
    THEN LET k == CHOOSE i \in 1..Len(sess) :
                    /\ sess[i].username = username
                    /\ \A j \in 1..(i - 1) : sess[j].username # username
         IN  SubSeq(sess, 1, k - 1) \o SubSeq(sess, k + 1, Len(sess))
    ELSE sess

\* main: accept() hands the new socket to a handle_client task
Accept(c) ==
    /\ conn[c].pc = "closed"
    /\ conn' = [conn EXCEPT ![c] = [pc |-> "accepted", username |-> "unknown",
                                    reply |-> NO_REPLY, registering |-> FALSE]]
    /\ UNCHANGED <<registered_users, active_sessions, restOfSess>>

\* handle_client, first frame REGISTER_CLIENT: look for an existing session
RegisterClientFind(c, u) ==
    /\ conn[c].pc = "accepted"
    /\ IF find_active_session(active_sessions, u)
       THEN conn' = [conn EXCEPT ![c] = [pc |-> "closed", username |-> u,
                                        reply |-> ERR_FILE_LOCKED, registering |-> TRUE]]
       ELSE conn' = [conn EXCEPT ![c] = [pc |-> "registering", username |-> u,
                                        reply |-> NO_REPLY, registering |-> TRUE]]
    /\ UNCHANGED <<registered_users, active_sessions, restOfSess>>

\* handle_client, first frame REGISTER_CLIENT: register_user, add_active_session
RegisterClientAdd(c) ==
    /\ conn[c].pc = "registering"
    /\ LET r == add_active_session(active_sessions, conn[c].username, c)
       IN  /\ active_sessions' = r.sessions
           /\ conn' = [conn EXCEPT ![c].pc = IF r.ok THEN "loop" ELSE "closed",
                                   ![c].reply = IF r.ok THEN RESP_SUCCESS ELSE ERR_FILE_LOCKED]
    /\ registered_users' = register_user(registered_users, conn[c].username)
    /\ UNCHANGED restOfSess

\* handle_client, first frame is no registration (or the first recv fails):
\* the task falls through to the request loop as "unknown"
FirstFrameOther(c) ==
    /\ conn[c].pc = "accepted"
    /\ conn' = [conn EXCEPT ![c].pc = "loop"]
    /\ UNCHANGED <<registered_users, active_sessions, restOfSess>>

\* handle_client request loop: recv fails, the session of client_username is removed
ClientDisconnect(c) ==
    /\ conn[c].pc = "loop"
    /\ active_sessions' = remove_active_session(active_sessions, conn[c].username)
    /\ conn' = [conn EXCEPT ![c].pc = "closed"]
    /\ UNCHANGED <<registered_users, restOfSess>>

SessionInit == SessInit /\ ParseIdle /\ TableIdle /\ NodesIdle /\ ReadIdle /\ EditIdle /\ SearchIdle
               /\ ReplyIdle

SessionNext ==
    \E c \in Conns :
        \/ Accept(c)
        \/ \E u \in UserIds : RegisterClientFind(c, u)
        \/ RegisterClientAdd(c)
        \/ FirstFrameOther(c)
        \/ ClientDisconnect(c)

SpecSession == SessionInit /\ [][SessionNext]_vars

\* C2: the active-session list has at most one entry per username; a connection
\* answered SUCCESS owns the entry of its username, and a registration that is
\* turned away is answered LOCKED.
C2_SingleSession ==
    /\ \A i, j \in 1..Len(active_sessions) :
          i # j => active_sessions[i].username # active_sessions[j].username
    /\ \A c \in Conns :
          (conn[c].pc = "loop" /\ conn[c].reply = RESP_SUCCESS) =>
              \E i \in 1..Len(active_sessions) :
                  active_sessions[i] = [username |-> conn[c].username, client_socket |-> c]
    /\ \A c \in Conns :
          (conn[c].pc = "closed" /\ conn[c].registering /\ conn[c].reply # RESP_SUCCESS) =>
              conn[c].reply = ERR_FILE_LOCKED

\* two registrations of one username raced past find_active_session, one was
\* admitted and the other turned away by add_active_session
C2_Witness ==
    \E c1, c2 \in Conns :
        /\ c1 # c2
        /\ conn[c1].username = conn[c2].username
        /\ conn[c1].pc = "loop" /\ conn[c1].reply = RESP_SUCCESS
        /\ conn[c2].pc = "closed" /\ conn[c2].reply = ERR_FILE_LOCKED
        /\ Len(active_sessions) >= 1

(***************************************************************************)
(* Coordinator: naming_server/file_manager.c, access_control.c,            *)
(* persistence.c and the access handlers of handle_client                  *)
(***************************************************************************)
FileNames == {"f1", "f2"}

\* add_file: a new record at the head of its hash chain, no search for the name
add_file(table, name, owner, ss_id) ==
    <<[name |-> name, owner |-> owner, storage_server_id |-> ss_id,
       acl |-> <<>>, access_requests |-> <<>>, checkpoints |-> <<>>]>> \o table

\* lookup_file: the position of the first record of the name, 0 for NULL
lookup_file(table, name) ==
    IF \E i \in 1..Len(table) : table[i].name = name
    THEN CHOOSE i \in 1..Len(table) :
            /\ table[i].name = name
            /\ \A j \in 1..(i - 1) : table[j].name # name
    ELSE 0

\* check_permission: the owner passes, others by the first ACL entry of their name
check_permission(entry, username, need_write) ==
    IF entry.owner = username THEN TRUE
    ELSE IF \E i \in 1..Len(entry.acl) : entry.acl[i].username = username
         THEN LET k == CHOOSE i \in 1..Len(entry.acl) :
                          /\ entry.acl[i].username = username
                          /\ \A j \in 1..(i - 1) : entry.acl[j].username # username
              IN  IF need_write THEN entry.acl[k].can_write = 1
                                ELSE entry.acl[k].can_read = 1
         ELSE FALSE

\* add_access: overwrite the first entry of the user, else a new entry at the head
add_access(acl, username, can_read, can_write) ==
    IF \E i \in 1..Len(acl) : acl[i].username = username
    THEN LET k == CHOOSE i \in 1..Len(acl) :
                     /\ acl[i].username = username
                     /\ \A j \in 1..(i - 1) : acl[j].username # username
         IN  [acl EXCEPT ![k] = [username |-> username, can_read |-> can_read,
                                 can_write |-> can_write]]
    ELSE <<[username |-> username, can_read |-> can_read, can_write |-> can_write]>> \o acl

\* remove_access: unlink the first entry of the user; found tells whether there was one
remove_access(acl, username) ==
    IF \E i \in 1..Len(acl) : acl[i].username = username
    THEN LET k == CHOOSE i \in 1..Len(acl) :
                     /\ acl[i].username = username
                     /\ \A j \in 1..(i - 1) : acl[j].username # username
         IN  [found |-> TRUE, acl |-> SubSeq(acl, 1, k - 1) \o SubSeq(acl, k + 1, Len(acl))]
    ELSE [found |-> FALSE, acl |-> acl]

add_access_request_always(reqs, id, requester, access_type) ==
    [request_id |-> id,
     reqs |-> <<[request_id |-> id, requester |-> requester,
                 access_type |-> access_type, status |-> 0]>> \o reqs]

\* add_access_request: -1 when the requester has a pending request on the file,
\* else a new pending request at the head of the list
add_access_request(reqs, id, requester, access_type) ==
    IF \E i \in 1..Len(reqs) : reqs[i].requester = requester /\ reqs[i].status = 0
    THEN [request_id |-> -1, reqs |-> reqs]
    ELSE [request_id |-> id,
          reqs |-> <<[request_id |-> id, requester |-> requester,
                      access_type |-> access_type, status |-> 0]>> \o reqs]

\* respond_to_request: the first pending request of that id is closed; on approval
\* the ACL gets can_read for types 1 and 3, can_write for types 2 and 3
respond_to_request(entry, request_id, approve) ==
    IF \E i \in 1..Len(entry.access_requests) :
            /\ entry.access_requests[i].request_id = request_id
            /\ entry.access_requests[i].status = 0
    THEN LET k == CHOOSE i \in 1..Len(entry.access_requests) :
                     /\ entry.access_requests[i].request_id = request_id
                     /\ entry.access_requests[i].status = 0
                     /\ \A j \in 1..(i - 1) :
                            ~(/\ entry.access_requests[j].request_id = request_id
                              /\ entry.access_requests[j].status = 0)
             req == entry.access_requests[k]
             can_read == IF req.access_type = 1 \/ req.access_type = 3 THEN 1 ELSE 0
             can_write == IF req.access_type = 2 \/ req.access_type = 3 THEN 1 ELSE 0
         IN  [rc |-> 0,
              entry |-> [entry EXCEPT
                  !.access_requests[k].status = IF approve # 0 THEN 1 ELSE 2,
                  !.acl = IF approve # 0
                          THEN add_access(entry.acl, req.requester, can_read, can_write)
                          ELSE entry.acl]]
    ELSE [rc |-> -1, entry |-> entry]

\* save_file_registry: per record a FILE line, its ACL lines and an END line
RECURSIVE save_file_registry(_)
save_file_registry(table) ==
    IF table = <<>> THEN <<>>
    ELSE LET entry == Head(table)
         IN  <<<<"FILE", entry.name, entry.owner, entry.storage_server_id>>>>
             \o [i \in 1..Len(entry.acl) |->
                    <<"ACL", entry.acl[i].username, entry.acl[i].can_read, entry.acl[i].can_write>>]
             \o <<<<"END">>>>
             \o save_file_registry(Tail(table))

\* load_file_registry, inner loop: the ACL lines up to END go to the first record
\* of the name; next is the line after END
RECURSIVE LoadAcls(_, _, _, _)
LoadAcls(lines, k, table, name) ==
    IF k > Len(lines) THEN [table |-> table, next |-> k]
    ELSE IF lines[k][1] = "ACL"
         THEN LET idx == lookup_file(table, name)
                  t == IF idx = 0 THEN table
                       ELSE [table EXCEPT ![idx].acl =
                                add_access(table[idx].acl, lines[k][2], lines[k][3], lines[k][4])]
              IN  LoadAcls(lines, k + 1, t, name)
         ELSE IF lines[k][1] = "END" THEN [table |-> table, next |-> k + 1]
         ELSE LoadAcls(lines, k + 1, table, name)

\* load_file_registry, outer loop: add_file for every FILE line
RECURSIVE LoadFrom(_, _, _)
LoadFrom(lines, k, table) ==
    IF k > Len(lines) THEN table
    ELSE IF lines[k][1] = "FILE"
         THEN LET r == LoadAcls(lines, k + 1,
                                add_file(table, lines[k][2], lines[k][3], lines[k][4]),
                                lines[k][2])
              IN  LoadFrom(lines, r.next, r.table)
         ELSE LoadFrom(lines, k + 1, table)

load_file_registry(dat) == IF dat = NoFile THEN <<>> ELSE LoadFrom(dat, 1, <<>>)

\* The access handlers below answer every request with a reply frame; the frame
\* is an output and leaves no trace in the coordinator, so a request that is
\* turned away changes nothing.

\* a client connects and registers with nobody racing it: Accept,
\* RegisterClientFind and RegisterClientAdd in a row
ClientLogin(c, u) ==
    /\ ns_up
    /\ conn[c].pc = "closed"
    /\ ~find_active_session(active_sessions, u)
    /\ registered_users' = register_user(registered_users, u)
    /\ active_sessions' = add_active_session(active_sessions, u, c).sessions
    /\ conn' = [conn EXCEPT ![c] = [pc |-> "loop", username |-> u,
                                    reply |-> RESP_SUCCESS, registering |-> TRUE]]
    /\ UNCHANGED <<tableVars, diskVars, restOfAcl>>

\* handle_client, MSG_ADD_ACCESS
AddAccess(c, f, target_user, flags) ==
    /\ ns_up
    /\ conn[c].pc = "loop"
    /\ task[c].pc = "idle"
    /\ LET client_username == conn[c].username
           idx == lookup_file(file_table, f)
           can_write == IF flags \in {2, 3} THEN 1 ELSE 0
           can_read == IF flags \in {1, 3} \/ can_write = 1 THEN 1 ELSE 0
       IN  IF idx = 0
           THEN UNCHANGED file_table
           ELSE IF file_table[idx].owner # client_username
           THEN UNCHANGED file_table
           ELSE IF target_user \notin registered_users
           THEN UNCHANGED file_table
           ELSE file_table' = [file_table EXCEPT ![idx].acl =
                        add_access(file_table[idx].acl, target_user, can_read, can_write)]
    /\ UNCHANGED <<sessVars, next_request_id, diskVars, restOfAcl>>

\* handle_client, MSG_REM_ACCESS
RemAccess(c, f, target_user) ==
    /\ ns_up
    /\ conn[c].pc = "loop"
    /\ task[c].pc = "idle"
    /\ LET client_username == conn[c].username
           idx == lookup_file(file_table, f)
       IN  IF idx = 0
           THEN UNCHANGED file_table
           ELSE IF file_table[idx].owner # client_username
           THEN UNCHANGED file_table
           ELSE IF target_user = client_username
           THEN UNCHANGED file_table
           ELSE LET r == remove_access(file_table[idx].acl, target_user)
                IN  file_table' = [file_table EXCEPT ![idx].acl = r.acl]
    /\ UNCHANGED <<sessVars, next_request_id, diskVars, restOfAcl>>

\* handle_client, MSG_REQUESTACCESS
RequestReply(table, username, f) ==
    LET idx == lookup_file(table, f)
    IN  IF idx = 0 THEN ERR_FILE_NOT_FOUND
        ELSE IF table[idx].owner = username THEN ERR_INVALID_REQUEST
        ELSE IF add_access_request(table[idx].access_requests, 0, username, 1).request_id < 0
        THEN ERR_FILE_EXISTS
        ELSE RESP_SUCCESS

RequestStep(c, f, access_type) ==
    /\ ns_up
    /\ conn[c].pc = "loop"
    /\ task[c].pc = "idle"
    /\ LET client_username == conn[c].username
           idx == lookup_file(file_table, f)
       IN  IF RequestReply(file_table, client_username, f) # RESP_SUCCESS
           THEN UNCHANGED tableVars
           ELSE LET r == add_access_request(file_table[idx].access_requests,
                                            next_request_id, client_username, access_type)
                IN  /\ next_request_id <= MaxReq
                    /\ file_table' = [file_table EXCEPT ![idx].access_requests = r.reqs]
                    /\ next_request_id' = next_request_id + 1
    /\ UNCHANGED <<sessVars, diskVars, parseVars, nodeVars, readVars, editVars, searchVars>>

RequestAccess(c, f, access_type) == RequestStep(c, f, access_type) /\ UNCHANGED reply_log

\* the same handler with the requests it turns away kept in reply_log
RequestTraced(c, f, access_type) ==
    /\ RequestStep(c, f, access_type)
    /\ LET code == RequestReply(file_table, conn[c].username, f)
       IN  IF code # RESP_SUCCESS
           THEN reply_log' = [n |-> 1 - reply_log.n, type |-> "REQUESTACCESS",
                              username |-> conn[c].username, filename |-> f, code |-> code]
           ELSE UNCHANGED reply_log

\* handle_client, MSG_RESPONDREQUEST
RespondRequest(c, f, request_id, approve) ==
    /\ ns_up
    /\ conn[c].pc = "loop"
    /\ task[c].pc = "idle"
    /\ LET idx == lookup_file(file_table, f)
       IN  IF idx = 0
           THEN UNCHANGED file_table
           ELSE IF file_table[idx].owner # conn[c].username
           THEN UNCHANGED file_table
           ELSE LET r == respond_to_request(file_table[idx], request_id, approve)
                IN  IF r.rc < 0
                    THEN UNCHANGED file_table
                    ELSE file_table' = [file_table EXCEPT ![idx] = r.entry]
    /\ UNCHANGED <<sessVars, next_request_id, diskVars, restOfAcl>>

\* shutdown_system: the nodes are told to shut down and their sockets are closed, so
\* every node has to start and register again; the registry is written to
\* ../naming_server/registry.dat, which is <root>/naming_server/registry.dat when the
\* process runs in naming_server/; then the process exits and its memory, the node
\* list and the search cache included, is gone
ShutdownNamingServer ==
    /\ ns_up
    /\ registry_dat' = IF ns_cwd = "naming_server" THEN save_file_registry(file_table)
                       ELSE registry_dat
    /\ ns_up' = FALSE
    /\ file_table' = <<>>
    /\ next_request_id' = 1
    /\ registered_users' = {}
    /\ active_sessions' = <<>>
    /\ conn' = [c \in Conns |-> [pc |-> "closed", username |-> "unknown",
                                reply |-> NO_REPLY, registering |-> FALSE]]
    /\ search_cache' = <<>>
    /\ storage_servers' = <<>>
    /\ ss_chan' = [n \in NodeIds |-> [reqs |-> <<>>, resps |-> <<>>]]
    /\ node_up' = [n \in NodeIds |-> FALSE]
    /\ task' = [c \in Conns |-> IdleTask]
    /\ hb' = IdleHb
    /\ UNCHANGED <<ns_cwd, restOfShutdown>>

\* main: a new process loads ./naming_server/registry.dat, which is
\* <root>/naming_server/registry.dat when the process runs in the root directory
StartNamingServer(cwd) ==
    /\ ~ns_up
    /\ ns_cwd' = cwd
    /\ ns_up' = TRUE
    /\ file_table' = IF cwd = "root" THEN load_file_registry(registry_dat) ELSE <<>>
    /\ UNCHANGED <<next_request_id, registry_dat, sessVars, restOfAcl>>

\* a coordinator started in naming_server/ in which alice created f1 on node ss1
AclInit ==
    /\ registered_users = {"alice"}
    /\ active_sessions = <<>>
    /\ conn = [c \in Conns |-> [pc |-> "closed", username |-> "unknown",
                                reply |-> NO_REPLY, registering |-> FALSE]]
    /\ file_table = add_file(<<>>, "f1", "alice", "ss1")
    /\ next_request_id = 1
    /\ registry_dat = NoFile
    /\ ns_cwd = "naming_server"
    /\ ns_up = TRUE
    /\ ParseIdle
    /\ NodesIdle
    /\ ReadIdle
    /\ EditIdle
    /\ SearchIdle
    /\ ReplyIdle

AclNext ==
    \/ \E c \in Conns, u \in UserIds : ClientLogin(c, u)
    \/ \E c \in Conns, f \in FileNames, t \in UserIds, flags \in {1, 2} : AddAccess(c, f, t, flags)
    \/ \E c \in Conns, f \in FileNames, t \in UserIds : RemAccess(c, f, t)
    \/ \E c \in Conns, f \in FileNames, ty \in {1, 2, 3} : RequestAccess(c, f, ty)
    \/ \E c \in Conns, f \in FileNames, id \in 1..MaxReq, approve \in {0, 1} :
           RespondRequest(c, f, id, approve)
    \/ ShutdownNamingServer
    \/ \E cwd \in {"root", "naming_server"} : StartNamingServer(cwd)

SpecAcl == AclInit /\ [][AclNext]_vars

\* C4: in every file record, every ACL entry that has can_write=1 has can_read=1.
C4_WriteImpliesRead ==
    \A i \in 1..Len(file_table) : \A k \in 1..Len(file_table[i].acl) :
        file_table[i].acl[k].can_write = 1 => file_table[i].acl[k].can_read = 1

\* C5: in every file record, no ACL entry carries the username of the owner.
C5_OwnerNotInAcl ==
    \A i \in 1..Len(file_table) : \A k \in 1..Len(file_table[i].acl) :
        file_table[i].acl[k].username # file_table[i].owner

(***************************************************************************)
(* Coordinator and nodes: naming_server/storage_server_manager.c, the      *)
(* CREATE and DELETE handlers of handle_client, and the command loop of    *)
(* the node (storage_server/storage_server.c, handle_ns_commands)          *)
(***************************************************************************)
\* delete_file_entry: unlink the first record of the name
delete_file_entry(table, name) ==
    LET idx == lookup_file(table, name)
    IN  IF idx = 0 THEN table
        ELSE SubSeq(table, 1, idx - 1) \o SubSeq(table, idx + 1, Len(table))

\* find_ss_by_id: the position of the first record of the id, 0 for NULL
find_ss_by_id(servers, ss_id) ==
    IF \E i \in 1..Len(servers) : servers[i].id = ss_id
    THEN CHOOSE i \in 1..Len(servers) :
            /\ servers[i].id = ss_id
            /\ \A j \in 1..(i - 1) : servers[j].id # ss_id
    ELSE 0

\* get_available_ss: the position of the first active record, 0 for NULL
get_available_ss_last(servers) ==
    IF \E i \in 1..Len(servers) : servers[i].is_active = 1
    THEN CHOOSE i \in 1..Len(servers) :
            /\ servers[i].is_active = 1
            /\ \A j \in (i + 1)..Len(servers) : servers[j].is_active # 1
    ELSE 0

get_available_ss(servers) ==
    IF \E i \in 1..Len(servers) : servers[i].is_active = 1
    THEN CHOOSE i \in 1..Len(servers) :
            /\ servers[i].is_active = 1
            /\ \A j \in 1..(i - 1) : servers[j].is_active # 1
    ELSE 0

\* register_storage_server, the loops over reg->files: a rejoining node adds the
\* names the registry lacks and takes over the records of the others, a new node
\* adds a record for every name it announces
RECURSIVE AddAnnounced(_, _, _, _)
AddAnnounced(table, files, ss_id, rejoin) ==
    IF files = {} THEN table
    ELSE LET f == CHOOSE x \in files : TRUE
             idx == lookup_file(table, f)
             t == IF rejoin /\ idx # 0
                  THEN [table EXCEPT ![idx].storage_server_id = ss_id]
                  ELSE add_file(table, f, "system", ss_id)
         IN  AddAnnounced(t, files \ {f}, ss_id, rejoin)

\* register_storage_server, followed by handle_client storing the accepted socket.
\* ss_socket is 1 for the connection of the running node process, 0 for a
\* descriptor whose peer is gone, -1 for none.  The monolithic coordinator has no
\* branch for a known id.
register_storage_server(build, servers, table, ss_id, files) ==
    LET k == find_ss_by_id(servers, ss_id)
    IN  IF k # 0 /\ build = "modular"
        THEN [servers |-> [servers EXCEPT ![k].is_active = 1, ![k].failed = 0,
                                          ![k].ss_socket = 1],
              table |-> AddAnnounced(table, files, ss_id, TRUE)]
        ELSE [servers |-> <<[id |-> ss_id, is_active |-> 1, failed |-> 0,
                             ss_socket |-> 1]>> \o servers,
              table |-> AddAnnounced(table, files, ss_id, FALSE)]

\* send_message on a control socket of node n: the frame reaches the node when
\* the socket is its live connection
ChanSend(n, ss_socket, frame) ==
    ss_chan' = IF ss_socket = 1
               THEN [ss_chan EXCEPT ![n].reqs = Append(@, frame)]
               ELSE ss_chan

\* recv_message on the control socket of node n returns: the oldest reply on the
\* channel, whoever asked for it, or a zeroed frame when the peer has closed
CanRecv(n, closed) == closed \/ ss_chan[n].resps # <<>>

RecvCode(n, closed) == IF closed THEN NO_REPLY ELSE Head(ss_chan[n].resps)

ChanRecv(n, closed) ==
    ss_chan' = IF closed THEN ss_chan ELSE [ss_chan EXCEPT ![n].resps = Tail(@)]

\* a node process starts: it announces the names in its storage directory on a
\* new connection, handle_client (MSG_REGISTER_SS) registers it
RegisterSS(n) ==
    /\ ns_up
    /\ ~node_up[n]
    /\ (find_ss_by_id(storage_servers, n) = 0 \/ ns_build # "modular")
           => Len(storage_servers) < MaxServers
    /\ LET r == register_storage_server(ns_build, storage_servers, file_table, n,
                                        node_files[n])
       IN  /\ storage_servers' = r.servers
           /\ file_table' = r.table
    /\ node_up' = [node_up EXCEPT ![n] = TRUE]
    /\ ss_chan' = [ss_chan EXCEPT ![n] = [reqs |-> <<>>, resps |-> <<>>]]
    /\ UNCHANGED <<node_files, task, hb, conn, restOfRegistry>>

\* a node process dies: its connection closes, every recv on it returns 0
NodeCrash(n) ==
    /\ node_up[n]
    /\ node_up' = [node_up EXCEPT ![n] = FALSE]
    /\ ss_chan' = [ss_chan EXCEPT ![n] = [reqs |-> <<>>, resps |-> <<>>]]
    /\ task' = [c \in Conns |->
                  IF task[c].pc # "idle" /\ task[c].ss_id = n
                  THEN [task[c] EXCEPT !.closed = TRUE] ELSE task[c]]
    /\ hb' = IF hb.pc = "recv" /\ hb.ss_id = n THEN [hb EXCEPT !.closed = TRUE] ELSE hb
    /\ storage_servers' = [k \in 1..Len(storage_servers) |->
                              IF storage_servers[k].id = n /\ storage_servers[k].ss_socket = 1
                              THEN [storage_servers[k] EXCEPT !.ss_socket = 0]
                              ELSE storage_servers[k]]
    /\ UNCHANGED <<file_table, node_files, conn, restOfRegistry>>

\* handle_ns_commands of the node: one command is taken, executed and answered
NodeServe(n) ==
    /\ node_up[n]
    /\ ss_chan[n].reqs # <<>>
    /\ LET m == Head(ss_chan[n].reqs)
           code == IF m.type = "CREATE"
                   THEN (IF m.filename \in node_files[n] THEN ERR_FILE_EXISTS ELSE RESP_SUCCESS)
                   ELSE IF m.type \in {"DELETE", "CHECKPOINT", "INFO"}
                   THEN (IF m.filename \in node_files[n] THEN RESP_SUCCESS ELSE ERR_FILE_NOT_FOUND)
                   ELSE IF m.type = "MOVE"
                   THEN (IF m.filename \in node_files[n] THEN RESP_SUCCESS ELSE ERR_SERVER_ERROR)
                   ELSE RESP_SUCCESS
       IN  /\ node_files' = [node_files EXCEPT ![n] =
                   IF m.type = "CREATE" THEN @ \cup {m.filename}
                   ELSE IF m.type = "DELETE" THEN @ \ {m.filename}
                   ELSE @]
           /\ ss_chan' = [ss_chan EXCEPT ![n].reqs = Tail(@), ![n].resps = Append(@, code)]
    /\ UNCHANGED <<storage_servers, file_table, node_up, task, hb, conn, restOfRegistry>>

\* handle_client (MSG_REGISTER_SS), the loop that watches the node's connection:
\* once the peer has closed, the record loses its socket
SsWatchClosed(k) ==
    /\ ns_up
    /\ k \in 1..Len(storage_servers)
    /\ storage_servers[k].ss_socket = 0
    /\ storage_servers' = [storage_servers EXCEPT ![k].ss_socket = -1]
    /\ UNCHANGED <<file_table, ss_chan, node_up, node_files, task, hb, conn, restOfRegistry>>

\* handle_client, MSG_CREATE up to the send on the node's control socket;
\* target is msg.data: a node id, or "" for the first active node
CreateSend(c, f, target) ==
    /\ ns_up
    /\ conn[c].pc = "loop"
    /\ task[c].pc = "idle"
    /\ LET k == IF target # "" THEN find_ss_by_id(storage_servers, target)
                ELSE get_available_ss(storage_servers)
       IN  IF lookup_file(file_table, f) # 0 \/ k = 0
           THEN UNCHANGED <<ss_chan, task>>
           ELSE IF storage_servers[k].ss_socket < 0
           THEN UNCHANGED <<ss_chan, task>>
           ELSE /\ ChanSend(storage_servers[k].id, storage_servers[k].ss_socket,
                            [type |-> "CREATE", filename |-> f])
                /\ task' = [task EXCEPT ![c] =
                       [pc |-> "create_recv", filename |-> f,
                        ss_id |-> storage_servers[k].id,
                        closed |-> storage_servers[k].ss_socket = 0]]
    /\ UNCHANGED <<storage_servers, file_table, node_up, node_files, hb, conn, restOfRegistry>>

\* invalidate_search_cache: every entry is freed
invalidate_search_cache(sc) == <<>>

\* handle_client, MSG_CREATE from the recv on the control socket: on SUCCESS the
\* record is added with add_file and the search cache is emptied
CreateRecv(c) ==
    /\ ns_up
    /\ task[c].pc = "create_recv"
    /\ CanRecv(task[c].ss_id, task[c].closed)
    /\ ChanRecv(task[c].ss_id, task[c].closed)
    /\ file_table' = IF RecvCode(task[c].ss_id, task[c].closed) = RESP_SUCCESS
                     THEN add_file(file_table, task[c].filename, conn[c].username, task[c].ss_id)
                     ELSE file_table
    /\ search_cache' = IF RecvCode(task[c].ss_id, task[c].closed) = RESP_SUCCESS
                       THEN invalidate_search_cache(search_cache)
                       ELSE search_cache
    /\ task' = [task EXCEPT ![c] = IdleTask]
    /\ UNCHANGED <<storage_servers, node_up, node_files, hb, conn, restOfCreate>>

\* handle_client, MSG_DELETE: the code of the reply the coordinator sends without
\* asking the node, NO_REPLY when the request goes on to the node
DeleteReply_writers(table, servers, username, f) ==
    LET idx == lookup_file(table, f)
        k == find_ss_by_id(servers, table[idx].storage_server_id)
    IN  IF idx = 0 THEN ERR_FILE_NOT_FOUND
        ELSE IF ~(\/ table[idx].owner = username
                  \/ check_permission(table[idx], username, TRUE))
        THEN ERR_PERMISSION_DENIED
        ELSE IF k = 0 THEN ERR_SS_UNAVAILABLE
        ELSE IF servers[k].is_active # 1 \/ servers[k].ss_socket < 0 THEN ERR_SS_UNAVAILABLE
        ELSE NO_REPLY

DeleteReply(table, servers, username, f) ==
    LET idx == lookup_file(table, f)
        k == find_ss_by_id(servers, table[idx].storage_server_id)
    IN  IF idx = 0 THEN ERR_FILE_NOT_FOUND
        ELSE IF table[idx].owner # username THEN ERR_PERMISSION_DENIED
        ELSE IF k = 0 THEN ERR_SS_UNAVAILABLE
        ELSE IF servers[k].is_active # 1 \/ servers[k].ss_socket < 0 THEN ERR_SS_UNAVAILABLE
        ELSE NO_REPLY

\* handle_client, MSG_DELETE up to the send on the node's control socket
DeleteStep(c, f) ==
    /\ ns_up
    /\ conn[c].pc = "loop"
    /\ task[c].pc = "idle"
    /\ LET k == find_ss_by_id(storage_servers,
                              file_table[lookup_file(file_table, f)].storage_server_id)
       IN  IF DeleteReply(file_table, storage_servers, conn[c].username, f) # NO_REPLY
           THEN UNCHANGED <<ss_chan, task>>
           ELSE /\ ChanSend(storage_servers[k].id, storage_servers[k].ss_socket,
                            [type |-> "DELETE", filename |-> f])
                /\ task' = [task EXCEPT ![c] =
                       [pc |-> "delete_recv", filename |-> f,
                        ss_id |-> storage_servers[k].id,
                        closed |-> storage_servers[k].ss_socket = 0]]
    /\ UNCHANGED <<storage_servers, file_table, node_up, node_files, hb, conn, restOfDelete>>

DeleteSend(c, f) == DeleteStep(c, f) /\ UNCHANGED reply_log

\* the same step with the refusals of the coordinator kept in reply_log
DeleteTraced(c, f) ==
    /\ DeleteStep(c, f)
    /\ LET code == DeleteReply(file_table, storage_servers, conn[c].username, f)
       IN  IF code # NO_REPLY
           THEN reply_log' = [n |-> 1 - reply_log.n, type |-> "DELETE",
                              username |-> conn[c].username, filename |-> f, code |-> code]
           ELSE UNCHANGED reply_log

\* handle_client, MSG_DELETE from the recv on the control socket: on SUCCESS the
\* first record of the name is removed and the search cache is emptied
DeleteRecv_keeping(c) ==
    /\ ns_up
    /\ task[c].pc = "delete_recv"
    /\ CanRecv(task[c].ss_id, task[c].closed)
    /\ ChanRecv(task[c].ss_id, task[c].closed)
    /\ file_table' = IF RecvCode(task[c].ss_id, task[c].closed) = RESP_SUCCESS
                     THEN delete_file_entry(file_table, task[c].filename)
                     ELSE file_table
    /\ search_cache' = search_cache
    /\ task' = [task EXCEPT ![c] = IdleTask]
    /\ UNCHANGED <<storage_servers, node_up, node_files, hb, conn, restOfCreate>>

DeleteRecv(c) ==
    /\ ns_up
    /\ task[c].pc = "delete_recv"
    /\ CanRecv(task[c].ss_id, task[c].closed)
    /\ ChanRecv(task[c].ss_id, task[c].closed)
    /\ file_table' = IF RecvCode(task[c].ss_id, task[c].closed) = RESP_SUCCESS
                     THEN delete_file_entry(file_table, task[c].filename)
                     ELSE file_table
    /\ search_cache' = IF RecvCode(task[c].ss_id, task[c].closed) = RESP_SUCCESS
                       THEN invalidate_search_cache(search_cache)
                       ELSE search_cache
    /\ task' = [task EXCEPT ![c] = IdleTask]
    /\ UNCHANGED <<storage_servers, node_up, node_files, hb, conn, restOfCreate>>

\* heartbeat_monitor, the walk over the list from record k up to the next ping:
\* inactive records are passed over, an active record without socket is marked
\* failed; ping is the id of the record whose socket gets the ping, "" when the
\* walk reaches the end of the list
RECURSIVE HbWalk_redial(_, _)
HbWalk_redial(servers, k) ==
    IF k > Len(servers) THEN [servers |-> servers, ping |-> "", at |-> k]
    ELSE IF servers[k].is_active = 1 /\ servers[k].ss_socket >= 0
         THEN [servers |-> servers, ping |-> servers[k].id, at |-> k]
    ELSE IF servers[k].is_active = 1 /\ servers[k].failed = 0
         THEN HbWalk_redial([servers EXCEPT ![k].failed = 1, ![k].is_active = 0], k + 1)
    ELSE HbWalk_redial([servers EXCEPT ![k].failed = 0, ![k].is_active = 1], k + 1)

RECURSIVE HbWalk(_, _)
HbWalk(servers, k) ==
    IF k > Len(servers) THEN [servers |-> servers, ping |-> "", at |-> k]
    ELSE IF servers[k].is_active = 1 /\ servers[k].ss_socket >= 0
         THEN [servers |-> servers, ping |-> servers[k].id, at |-> k]
    ELSE IF servers[k].is_active = 1 /\ servers[k].failed = 0
         THEN HbWalk([servers EXCEPT ![k].failed = 1, ![k].is_active = 0], k + 1)
    ELSE HbWalk(servers, k + 1)

\* heartbeat_monitor: after the walk the task sleeps, or has sent a ping and waits;
\* chan is the state of the channels when the walk began
HbContinue(r, chan) ==
    /\ storage_servers' = r.servers
    /\ IF r.ping = ""
       THEN /\ hb' = IdleHb
            /\ ss_chan' = chan
       ELSE /\ hb' = [pc |-> "recv", ss_id |-> r.ping,
                      behind |-> Len(r.servers) - r.at,
                      closed |-> r.servers[r.at].ss_socket = 0]
            /\ ss_chan' = IF r.servers[r.at].ss_socket = 1
                          THEN [chan EXCEPT ![r.ping].reqs =
                                   Append(@, [type |-> "HEARTBEAT", filename |-> ""])]
                          ELSE chan

\* heartbeat_monitor: sleep(10) is over, the walk starts at the head of the list
HbWake ==
    /\ ns_up
    /\ hb.pc = "sleep"
    /\ storage_servers # <<>>
    /\ HbContinue(HbWalk(storage_servers, 1), ss_chan)
    /\ UNCHANGED <<file_table, node_up, node_files, task, conn, restOfRegistry>>

\* heartbeat_monitor: the recv of the ping returns; a closed connection marks the
\* record failed and drops its socket; the walk goes on behind the record
HbRecv ==
    /\ ns_up
    /\ hb.pc = "recv"
    /\ CanRecv(hb.ss_id, hb.closed)
    /\ LET k == Len(storage_servers) - hb.behind
           ss == storage_servers[k]
           servers == IF hb.closed
                      THEN (IF ss.failed = 0
                            THEN [storage_servers EXCEPT ![k].failed = 1, ![k].is_active = 0,
                                                         ![k].ss_socket = -1]
                            ELSE storage_servers)
                      ELSE (IF ss.failed = 1
                            THEN [storage_servers EXCEPT ![k].failed = 0, ![k].is_active = 1]
                            ELSE storage_servers)
           chan == IF hb.closed THEN ss_chan ELSE [ss_chan EXCEPT ![hb.ss_id].resps = Tail(@)]
       IN  HbContinue(HbWalk(servers, k + 1), chan)
    /\ UNCHANGED <<file_table, node_up, node_files, task, conn, restOfRegistry>>

\* the file names the clients and the nodes of this subsystem deal with
RegistryFiles == {"f1"}

\* a fresh coordinator; alice and bob are logged in; the nodes are down and hold
\* whatever earlier runs left in their storage directories
RegistryInit ==
    /\ registered_users = {"alice", "bob"}
    /\ active_sessions = <<[username |-> "bob", client_socket |-> 2],
                           [username |-> "alice", client_socket |-> 1]>>
    /\ conn = [c \in Conns |->
                 IF c = 1 THEN [pc |-> "loop", username |-> "alice",
                                reply |-> RESP_SUCCESS, registering |-> TRUE]
                 ELSE IF c = 2 THEN [pc |-> "loop", username |-> "bob",
                                     reply |-> RESP_SUCCESS, registering |-> TRUE]
                 ELSE [pc |-> "closed", username |-> "unknown",
                       reply |-> NO_REPLY, registering |-> FALSE]]
    /\ storage_servers = <<>>
    /\ ss_chan = [n \in NodeIds |-> [reqs |-> <<>>, resps |-> <<>>]]
    /\ node_up = [n \in NodeIds |-> FALSE]
    /\ node_files \in [NodeIds -> SUBSET RegistryFiles]
    /\ task = [c \in Conns |-> IdleTask]
    /\ hb = IdleHb
    /\ TableIdle
    /\ ParseIdle
    /\ ReadIdle
    /\ EditIdle
    /\ SearchIdle
    /\ ReplyIdle

RegistryNext ==
    \/ \E n \in NodeIds : RegisterSS(n)
    \/ \E n \in NodeIds : NodeCrash(n)
    \/ \E n \in NodeIds : NodeServe(n)
    \/ \E k \in 1..MaxServers : SsWatchClosed(k)
    \/ \E c \in Conns, f \in RegistryFiles, target \in NodeIds \cup {""} : CreateSend(c, f, target)
    \/ \E c \in Conns : CreateRecv(c)
    \/ \E c \in Conns, f \in RegistryFiles : DeleteSend(c, f)
    \/ \E c \in Conns : DeleteRecv(c)
    \/ HbWake
    \/ HbRecv

SpecRegistry == RegistryInit /\ [][RegistryNext]_vars

\* C1: no two distinct file records of the registry have the same name.
C1_NamesUnique ==
    \A i, j \in 1..Len(file_table) :
        i # j => file_table[i].name # file_table[j].name

\* C6: on the control channel of each node at most one coordinator task (a client
\* handler or the failure detector) has sent a request and waits for its reply.
WaitingOn(n) ==
    Cardinality({c \in Conns : task[c].pc # "idle" /\ task[c].ss_id = n})
    + (IF hb.pc = "recv" /\ hb.ss_id = n THEN 1 ELSE 0)

C6_OneExchangePerChannel == \A n \in NodeIds : WaitingOn(n) <= 1

(***************************************************************************)
(* Coordinator: the READ handler of handle_client, in the modular          *)
(* (naming_server_modular.c) and the monolithic (naming_server.c) build    *)
(***************************************************************************)
restOfRead == <<parseVars, diskVars, editVars, searchVars, reply_log, next_request_id, sessVars,
                ss_chan, node_up, node_files, task, hb>>

\* handle_client (storage node), ETIRW: the committed file is copied to
\* ../backups/<ss_id>/<name>, the directory the coordinator reads as ./backups
NodeBackup(n, f) ==
    /\ node_up[n]
    /\ f \in node_files[n]
    /\ backups' = backups \cup {<<n, f>>}
    /\ UNCHANGED <<ns_build, cache, read_log, storage_servers, file_table, restOfRead>>

\* handle_client, MSG_READ.  read_log keeps what the handler did: the fallbacks it
\* tried, in the order it tried them, its reply, and what was there to fall back on
Read(c, f) ==
    /\ ns_up
    /\ conn[c].pc = "loop"
    /\ task[c].pc = "idle"
    /\ LET idx == lookup_file(file_table, f)
           entry == file_table[idx]
           k == find_ss_by_id(storage_servers, entry.storage_server_id)
           down == k = 0 \/ storage_servers[k].is_active # 1
           a == get_available_ss(storage_servers)
           has_cache == f \in cache
           has_backup == <<entry.storage_server_id, f>> \in backups
           has_other == a # 0 /\ a # k
           log(code, steps) ==
               [reply |-> code, tried |-> steps, unreachable |-> down,
                had_cache |-> has_cache, had_backup |-> has_backup, had_other |-> has_other]
       IN  IF idx = 0
           THEN /\ read_log' = [NoRead EXCEPT !.reply = ERR_FILE_NOT_FOUND]
                /\ UNCHANGED <<cache, file_table>>
           ELSE IF ~check_permission(entry, conn[c].username, FALSE)
           THEN /\ read_log' = [NoRead EXCEPT !.reply = ERR_PERMISSION_DENIED]
                /\ UNCHANGED <<cache, file_table>>
           ELSE IF ~down
           THEN /\ read_log' = log(RESP_SS_INFO, <<>>)
                /\ UNCHANGED <<cache, file_table>>
           ELSE IF ns_build = "monolithic"
           THEN /\ read_log' = log(ERR_SS_UNAVAILABLE, <<>>)
                /\ UNCHANGED <<cache, file_table>>
           ELSE IF has_cache
           THEN /\ read_log' = log(RESP_SUCCESS, <<"cache">>)
                /\ UNCHANGED <<cache, file_table>>
           ELSE IF has_backup
           THEN /\ read_log' = log(RESP_SUCCESS, <<"cache", "backup">>)
                /\ cache' = cache \cup {f}
                /\ UNCHANGED file_table
           ELSE IF has_other
           THEN /\ read_log' = log(RESP_SS_INFO, <<"cache", "backup", "failover">>)
                /\ file_table' = [file_table EXCEPT
                                     ![idx].storage_server_id = storage_servers[a].id]
                /\ UNCHANGED cache
           ELSE /\ read_log' = log(ERR_SS_UNAVAILABLE, <<"cache", "backup", "failover">>)
                /\ UNCHANGED <<cache, file_table>>
    /\ UNCHANGED <<ns_build, backups, storage_servers, restOfRead>>

\* either coordinator, with node ss1 registered and running; alice, who is logged
\* in like bob, has created f1 on it
ReadInit ==
    /\ ns_build \in {"modular", "monolithic"}
    /\ cache = {}
    /\ backups = {}
    /\ read_log = NoRead
    /\ registered_users = {"alice", "bob"}
    /\ active_sessions = <<[username |-> "bob", client_socket |-> 2],
                           [username |-> "alice", client_socket |-> 1]>>
    /\ conn = [c \in Conns |->
                 IF c = 1 THEN [pc |-> "loop", username |-> "alice",
                                reply |-> RESP_SUCCESS, registering |-> TRUE]
                 ELSE IF c = 2 THEN [pc |-> "loop", username |-> "bob",
                                     reply |-> RESP_SUCCESS, registering |-> TRUE]
                 ELSE [pc |-> "closed", username |-> "unknown",
                       reply |-> NO_REPLY, registering |-> FALSE]]
    /\ storage_servers = <<[id |-> "ss1", is_active |-> 1, failed |-> 0, ss_socket |-> 1]>>
    /\ ss_chan = [n \in NodeIds |-> [reqs |-> <<>>, resps |-> <<>>]]
    /\ node_up = [n \in NodeIds |-> n = "ss1"]
    /\ node_files = [n \in NodeIds |-> IF n = "ss1" THEN {"f1"} ELSE {}]
    /\ EditIdle
    /\ SearchIdle
    /\ ReplyIdle
    /\ task = [c \in Conns |-> IdleTask]
    /\ hb = IdleHb
    /\ file_table = add_file(<<>>, "f1", "alice", "ss1")
    /\ next_request_id = 1
    /\ registry_dat = NoFile
    /\ ns_cwd = "root"
    /\ ns_up = TRUE
    /\ ParseIdle

ReadNext ==
    \/ \E n \in NodeIds : RegisterSS(n)
    \/ \E n \in NodeIds : NodeCrash(n)
    \/ \E n \in NodeIds : NodeServe(n)
    \/ HbWake
    \/ HbRecv
    \/ \E n \in NodeIds, f \in FileNames : NodeBackup(n, f)
    \/ \E c \in Conns, f \in FileNames : Read(c, f)

SpecRead == ReadInit /\ [][ReadNext]_vars

\* C10: a READ by a permitted user of a file whose node is unreachable tries the
\* cache, then the backup directory, then failover, in that order, stopping at
\* the first that serves it, and answers UNAVAILABLE only when there was no cached
\* copy, no backup copy and no other active node.
Fallbacks == <<"cache", "backup", "failover">>

C10_FallbackOrder ==
    read_log.unreachable =>
        /\ \E m \in 1..3 : read_log.tried = SubSeq(Fallbacks, 1, m)
        /\ read_log.reply = ERR_SS_UNAVAILABLE =>
               (~read_log.had_cache /\ ~read_log.had_backup /\ ~read_log.had_other)

\* C11: once the owning node of a file has failed and READs of the file have
\* been served from the backup and from the cache, a READ that finds another
\* active node is answered with a referral to that node (the record having been
\* reassigned to it).
C11_FailoverAfterCache ==
    (read_log.unreachable /\ read_log.had_cache /\ read_log.had_other) =>
        read_log.reply = RESP_SS_INFO

(***************************************************************************)
(* Storage node: sentence locks, undo flags, WRITE sessions and UNDO       *)
(* storage_server/storage_server.c (monolithic) and                        *)
(* storage_server/storage_server_modular.c with lock_manager.c and         *)
(* undo_manager.c (modular)                                                *)
(***************************************************************************)
\* longest file text a WRITE session is let to produce
MaxFileLen == 3
\* largest sentence number a WRITE request asks for
MaxSentenceNum == 2
\* word updates one WRITE session makes before the model stops updating in it
MaxUpdates == 1

\* strtok(s, " \t\n"): the maximal runs of characters that are no separator
IsTokSep(c) == c = " " \/ c = "\n"

RECURSIVE strtok(_, _, _, _)
strtok(s, p, cur, acc) ==
    IF p > Len(s) THEN (IF cur # <<>> THEN Append(acc, cur) ELSE acc)
    ELSE IF IsTokSep(s[p])
         THEN strtok(s, p + 1, <<>>, IF cur # <<>> THEN Append(acc, cur) ELSE acc)
         ELSE strtok(s, p + 1, Append(cur, s[p]), acc)

parse_words(sentence) == strtok(sentence, 1, <<>>, <<>>)

RECURSIVE rebuild_sentence(_)
rebuild_sentence(words) ==
    IF Len(words) = 0 THEN <<>>
    ELSE IF Len(words) = 1 THEN words[1]
    ELSE words[1] \o <<" ">> \o rebuild_sentence(Tail(words))

\* the length of s without its trailing whitespace
RECURSIVE TrimmedLen(_, _)
TrimmedLen(s, len) ==
    IF len > 0 /\ isspace(s[len]) THEN TrimmedLen(s, len - 1) ELSE len

sentence_has_delimiter(sentence) ==
    LET len == TrimmedLen(sentence, Len(sentence))
    IN  /\ len > 0
        /\ IsDelim(sentence[len])
        /\ (len >= 2 => ~IsDelim(sentence[len - 1]))

\* the fgets loop of the WRITE handler: every line of the file, without its
\* newline, followed by one space
ReadContent(text) ==
    IF text = <<>> THEN <<>>
    ELSE [i \in 1..Len(text) |-> IF text[i] = "\n" THEN " " ELSE text[i]]
         \o (IF text[Len(text)] = "\n" THEN <<>> ELSE <<" ">>)

\* what ETIRW writes to the file: the monolithic node skips empty sentences and
\* ends the file with a newline, the modular node writes every sentence
RECURSIVE WriteOut(_, _, _)
WriteOut(build, sents, i) ==
    IF i > Len(sents) THEN (IF build = "monolithic" THEN <<"\n">> ELSE <<>>)
    ELSE LET sep == IF i < Len(sents) /\ (build = "modular" \/ Len(sents[i]) > 0)
                    THEN <<" ">> ELSE <<>>
         IN  sents[i] \o sep \o WriteOut(build, sents, i + 1)

\* ---- lock manager
find_sentence_lock(l, filename, sentence_num) ==
    LET hits == {i \in 1..Len(l) : l[i].filename = filename /\ l[i].sentence_num = sentence_num}
    IN  IF hits = {} THEN 0 ELSE CHOOSE i \in hits : \A j \in hits : i <= j

add_sentence_lock_unchecked(l, filename, sentence_num, username) ==
    [ok |-> TRUE,
     locks |-> <<[filename |-> filename, sentence_num |-> sentence_num,
                  locked_by |-> username]>> \o l]

add_sentence_lock(l, filename, sentence_num, username) ==
    IF find_sentence_lock(l, filename, sentence_num) # 0
    THEN [ok |-> FALSE, locks |-> l]
    ELSE [ok |-> TRUE,
          locks |-> <<[filename |-> filename, sentence_num |-> sentence_num,
                       locked_by |-> username]>> \o l]

remove_sentence_lock(l, filename, sentence_num, username) ==
    LET hits == {i \in 1..Len(l) : /\ l[i].filename = filename
                                   /\ l[i].sentence_num = sentence_num
                                   /\ l[i].locked_by = username}
    IN  IF hits = {} THEN l
        ELSE LET k == CHOOSE i \in hits : \A j \in hits : i <= j
             IN  SubSeq(l, 1, k - 1) \o SubSeq(l, k + 1, Len(l))

\* ---- undo manager
\* the undo flag of the file: 0 also when the list has no entry for it
get_undo_state(us, filename) ==
    LET hits == {i \in 1..Len(us) : us[i].filename = filename}
    IN  IF hits = {} THEN 0
        ELSE us[CHOOSE i \in hits : \A j \in hits : i <= j].undo_performed

set_undo_state_sticky(us, filename, undo_performed) ==
    IF \E i \in 1..Len(us) : us[i].filename = filename
    THEN LET k == CHOOSE i \in 1..Len(us) :
                    /\ us[i].filename = filename
                    /\ \A j \in 1..(i - 1) : us[j].filename # filename
         IN  [us EXCEPT ![k].undo_performed = IF @ = 1 THEN 1 ELSE undo_performed]
    ELSE <<[filename |-> filename, undo_performed |-> undo_performed]>> \o us

set_undo_state(us, filename, undo_performed) ==
    IF \E i \in 1..Len(us) : us[i].filename = filename
    THEN LET k == CHOOSE i \in 1..Len(us) :
                    /\ us[i].filename = filename
                    /\ \A j \in 1..(i - 1) : us[j].filename # filename
         IN  [us EXCEPT ![k].undo_performed = undo_performed]
    ELSE <<[filename |-> filename, undo_performed |-> undo_performed]>> \o us

restOfEdit == <<parseVars, sessVars, tableVars, diskVars, nodeVars, readVars, searchVars,
                reply_log>>

\* the texts a client sends as the word of one update
WordPayloads == {<<>>, <<"a">>, <<"a", ".">>}

Logged(f, op, code, undone) ==
    [op_log EXCEPT ![f] = <<@[2], [op |-> op, code |-> code, undone |-> undone]>>]

\* MSG_WRITE up to the call of add_sentence_lock: the file is read and split into
\* sentences, the sentence number is checked against them
WriteOpen(u, f, n) ==
    /\ write_task[u].pc \in {"idle", "dropped"}
    /\ LET text == storage_dir[f]
           \* the handler answers code, with word_index wi, and is back in its
           \* recv_message
           Refused(code, wi) ==
               write_task' = [write_task EXCEPT ![u] =
                                [IdleWrite EXCEPT !.filename = f, !.sentence_num = n,
                                                  !.reply = code, !.word_index = wi]]
           Opened(sents) ==
               write_task' = [write_task EXCEPT ![u] =
                                [pc |-> "locking", filename |-> f, sentence_num |-> n,
                                 sentences |-> sents, words |-> <<>>, updates |-> 0,
                                 reply |-> NO_REPLY, word_index |-> 0]]
       IN  IF text = NoFile THEN Refused(ERR_FILE_NOT_FOUND, 0)
           ELSE LET sents == parse_sentences(ReadContent(text))
                    count == Len(sents)
                IN  IF count = 0
                    THEN (IF n # 0 THEN Refused(ERR_SENTENCE_OUT_OF_RANGE, 0)
                          ELSE Opened(<< <<>> >>))
                    ELSE IF n < 0 THEN Refused(ERR_SENTENCE_OUT_OF_RANGE, count - 1)
                    ELSE IF n = count
                         THEN (IF ~sentence_has_delimiter(sents[count])
                               THEN Refused(ERR_SENTENCE_OUT_OF_RANGE, count - 1)
                               ELSE Opened(Append(sents, <<>>)))
                    ELSE IF n > count THEN Refused(ERR_SENTENCE_OUT_OF_RANGE, count)
                    ELSE Opened(sents)
    /\ UNCHANGED <<ss_build, storage_dir, undo_backup, backup_copy, locks, undo_states,
                   op_log, restOfEdit>>

\* MSG_WRITE from add_sentence_lock to the first recv_message of the edit loop
WriteLock(u) ==
    /\ write_task[u].pc = "locking"
    /\ LET t == write_task[u]
           r == add_sentence_lock(locks, t.filename, t.sentence_num, u)
       IN  /\ locks' = r.locks
           /\ write_task' = [write_task EXCEPT ![u] =
                IF r.ok
                THEN [t EXCEPT !.pc = "editing",
                               !.words = parse_words(t.sentences[t.sentence_num + 1]),
                               !.reply = RESP_SUCCESS]
                ELSE [IdleWrite EXCEPT !.filename = t.filename,
                                       !.sentence_num = t.sentence_num,
                                       !.reply = ERR_FILE_LOCKED]]
    /\ UNCHANGED <<ss_build, storage_dir, undo_backup, backup_copy, undo_states, op_log,
                   restOfEdit>>

InsertAt_replace(words, idx, toks) ==
    SubSeq(words, 1, idx) \o toks \o SubSeq(words, idx + 2, Len(words))

InsertAt(words, idx, toks) ==
    SubSeq(words, 1, idx) \o toks \o SubSeq(words, idx + 1, Len(words))

\* the session of t after one word update (the frame that answers the update,
\* ERR_WORD_OUT_OF_RANGE or RESP_SUCCESS, is an output and leaves no state); the
\* monolithic node splits the text
\* into words and re-splits the sentence, the modular node inserts the text as
\* one word and deletes a word on an empty text
UpdatedTask(build, t, idx, payload) ==
    IF idx < 0 \/ idx > Len(t.words) THEN t
    ELSE IF build = "monolithic"
    THEN LET toks == parse_words(payload)
             words2 == InsertAt(t.words, idx, toks)
             split == parse_sentences(rebuild_sentence(words2))
             n == t.sentence_num
         IN  IF toks = <<>> THEN t
             ELSE IF Len(split) > 1
             THEN [t EXCEPT !.sentences = SubSeq(@, 1, n) \o split
                                          \o SubSeq(@, n + 2, Len(@)),
                            !.words = parse_words(split[1])]
             ELSE [t EXCEPT !.words = words2]
    ELSE IF payload = <<>>
         THEN [t EXCEPT !.words = IF idx < Len(@)
                                  THEN SubSeq(@, 1, idx) \o SubSeq(@, idx + 2, Len(@))
                                  ELSE @]
         ELSE [t EXCEPT !.words = InsertAt(@, idx, <<payload>>)]

\* the sentences ETIRW writes: the edited sentence rebuilt from its words
Committed(t) == [t.sentences EXCEPT ![t.sentence_num + 1] = rebuild_sentence(t.words)]

\* one pass of the edit loop on a frame that is not ETIRW; the word indexes
\* tried end one past the first index that is out of range, and the session is
\* not let to grow the file text beyond cap
WordUpdate(u, idx, payload, cap) ==
    /\ write_task[u].pc = "editing"
    /\ write_task[u].updates < MaxUpdates
    /\ idx <= Len(write_task[u].words) + 1
    /\ LET t2 == UpdatedTask(ss_build, write_task[u], idx, payload)
       IN  /\ Len(WriteOut(ss_build, Committed(t2), 1)) <= cap
           /\ write_task' = [write_task EXCEPT ![u] = [t2 EXCEPT !.updates = @ + 1]]
    /\ UNCHANGED <<ss_build, storage_dir, undo_backup, backup_copy, locks, undo_states,
                   op_log, restOfEdit>>

\* the edit loop on the frame ETIRW: the file is copied to <name>.backup, the
\* sentences are written to the file, the lock is released, the undo flag is
\* cleared and the file is copied to backup_dir/<name>
Etirw(u) ==
    /\ write_task[u].pc = "editing"
    /\ LET t == write_task[u]
           f == t.filename
           old == storage_dir[f]
           new == WriteOut(ss_build, Committed(t), 1)
       IN  /\ undo_backup' = [undo_backup EXCEPT ![f] =
                                IF old # NoFile THEN old
                                ELSE IF ss_build = "modular" THEN <<>> ELSE @]
           /\ storage_dir' = [storage_dir EXCEPT ![f] = new]
           /\ backup_copy' = backup_copy \cup {f}
           /\ locks' = remove_sentence_lock(locks, f, t.sentence_num, u)
           /\ undo_states' = set_undo_state(undo_states, f, 0)
           /\ op_log' = Logged(f, "ETIRW", RESP_SUCCESS, get_undo_state(undo_states, f) = 1)
    /\ write_task' = [write_task EXCEPT ![u] = IdleWrite]
    /\ UNCHANGED <<ss_build, restOfEdit>>

WriteDisconnect_saving(u) ==
    /\ write_task[u].pc = "editing"
    /\ locks' = remove_sentence_lock(locks, write_task[u].filename,
                                     write_task[u].sentence_num, u)
    /\ storage_dir' = [storage_dir EXCEPT ![write_task[u].filename] =
                           WriteOut(ss_build, Committed(write_task[u]), 1)]
    /\ write_task' = [write_task EXCEPT ![u] =
                         [IdleWrite EXCEPT !.pc = "dropped",
                                           !.filename = write_task[u].filename,
                                           !.sentence_num = write_task[u].sentence_num,
                                           !.updates = write_task[u].updates]]
    /\ UNCHANGED <<ss_build, undo_backup, backup_copy, undo_states, op_log, restOfEdit>>

\* recv_message fails in the edit loop: the client is gone; only the monolithic
\* node releases the lock after the loop.  The handler thread ends ("dropped"),
\* its record keeps the request it served
WriteDisconnect(u) ==
    /\ write_task[u].pc = "editing"
    /\ locks' = IF ss_build = "monolithic"
                THEN remove_sentence_lock(locks, write_task[u].filename,
                                          write_task[u].sentence_num, u)
                ELSE locks
    /\ write_task' = [write_task EXCEPT ![u] =
                         [IdleWrite EXCEPT !.pc = "dropped",
                                           !.filename = write_task[u].filename,
                                           !.sentence_num = write_task[u].sentence_num,
                                           !.updates = write_task[u].updates]]
    /\ UNCHANGED <<ss_build, storage_dir, undo_backup, backup_copy, undo_states, op_log,
                   restOfEdit>>

\* MSG_UNDO.  The monolithic node checks the file, then <name>.backup, then the
\* undo flag, and swaps the file with <name>.backup; the modular node checks the
\* flag first and copies <name>.backup over the file
Undo(f) ==
    LET flag == get_undo_state(undo_states, f)
        Answer(code) == /\ op_log' = Logged(f, "UNDO", code, FALSE)
                        /\ UNCHANGED <<storage_dir, undo_backup, undo_states>>
    IN  /\ IF ss_build = "monolithic"
           THEN IF storage_dir[f] = NoFile THEN Answer(ERR_FILE_NOT_FOUND)
                ELSE IF undo_backup[f] = NoFile THEN Answer(ERR_SERVER_ERROR)
                ELSE IF flag = 1 THEN Answer(ERR_PERMISSION_DENIED)
                ELSE /\ storage_dir' = [storage_dir EXCEPT ![f] = undo_backup[f]]
                     /\ undo_backup' = [undo_backup EXCEPT ![f] = storage_dir[f]]
                     /\ undo_states' = set_undo_state(undo_states, f, 1)
                     /\ op_log' = Logged(f, "UNDO", RESP_SUCCESS, FALSE)
           ELSE IF flag = 1 THEN Answer(ERR_INVALID_REQUEST)
                ELSE IF undo_backup[f] = NoFile THEN Answer(ERR_FILE_NOT_FOUND)
                ELSE /\ storage_dir' = [storage_dir EXCEPT ![f] = undo_backup[f]]
                     /\ undo_states' = set_undo_state(undo_states, f, 1)
                     /\ op_log' = Logged(f, "UNDO", RESP_SUCCESS, FALSE)
                     /\ UNCHANGED undo_backup
        /\ UNCHANGED <<ss_build, backup_copy, locks, write_task, restOfEdit>>

\* either node program, freshly started: no lock, no undo flag; the storage
\* directory holds what earlier runs left
EditInit ==
    /\ ss_build \in {"monolithic", "modular"}
    /\ storage_dir \in [EditFiles -> {NoFile, <<>>, <<"a", ".">>}]
    /\ undo_backup = [f \in EditFiles |-> NoFile]
    /\ backup_copy = {}
    /\ locks = <<>>
    /\ undo_states = <<>>
    /\ write_task = [u \in UserIds |-> IdleWrite]
    /\ op_log = [f \in EditFiles |-> <<NoOp, NoOp>>]
    /\ ParseIdle
    /\ SessInit
    /\ TableIdle
    /\ NodesIdle
    /\ ReadIdle
    /\ SearchIdle
    /\ ReplyIdle

\* the sentence numbers the racing writers ask for
EditSentences == {0, 1}

EditNext ==
    \/ \E u \in UserIds, f \in EditFiles, n \in EditSentences : WriteOpen(u, f, n)
    \/ \E u \in UserIds : WriteLock(u)
    \/ \E u \in UserIds, idx \in (-1)..(MaxFileLen + 1), payload \in WordPayloads :
          WordUpdate(u, idx, payload, MaxFileLen)
    \/ \E u \in UserIds : Etirw(u)
    \/ \E u \in UserIds : WriteDisconnect(u)
    \/ \E f \in EditFiles : Undo(f)

SpecEdit == EditInit /\ [][EditNext]_vars

(***************************************************************************)
(* One writer on files of any short text: the sentence range check, the    *)
(* word updates and the commit of the WRITE handler                        *)
(***************************************************************************)
\* the user whose WRITE sessions are followed
Writer == "alice"

\* the texts the writer sends as the word of one update
WritePayloads == WordPayloads \cup {<<".", "a">>, <<"a", " ", "a">>, <<".", "a", ".">>}

\* either node program; the file holds any text of up to MaxFileLen characters
WriteInit ==
    /\ ss_build \in {"monolithic", "modular"}
    /\ storage_dir \in [EditFiles -> StringsUpTo(MaxFileLen)]
    /\ undo_backup = [f \in EditFiles |-> NoFile]
    /\ backup_copy = {}
    /\ locks = <<>>
    /\ undo_states = <<>>
    /\ write_task = [u \in UserIds |-> IdleWrite]
    /\ op_log = [f \in EditFiles |-> <<NoOp, NoOp>>]
    /\ ParseIdle
    /\ SessInit
    /\ TableIdle
    /\ NodesIdle
    /\ ReadIdle
    /\ SearchIdle
    /\ ReplyIdle

\* the writer is followed up to the first commit of the file
WriteNext ==
    \/ \E f \in EditFiles, n \in (-1)..MaxSentenceNum :
          op_log[f][2] = NoOp /\ WriteOpen(Writer, f, n)
    \/ WriteLock(Writer)
    \/ \E idx \in (-1)..(MaxLen + 1), payload \in WritePayloads :
          WordUpdate(Writer, idx, payload, MaxLen)
    \/ Etirw(Writer)
    \/ WriteDisconnect(Writer)

SpecWrite == WriteInit /\ [][WriteNext]_vars

\* the number of sentences of file f, as the WRITE handler counts them
SentenceCount(f) == Len(parse_sentences(ReadContent(storage_dir[f])))

\* C14: a WRITE whose sentence number is not accessible (above the sentence
\* count S, equal to S when sentence S-1 does not end with a single delimiter,
\* non-zero on an empty file) is answered SENT_OOR with word_index = S.
C14_OutOfRangeReportsCount ==
    \A u \in UserIds :
        (/\ write_task[u].pc = "idle"
         /\ write_task[u].reply = ERR_SENTENCE_OUT_OF_RANGE
         /\ write_task[u].sentence_num >= 0) =>
            write_task[u].word_index = SentenceCount(write_task[u].filename)

\* the edited sentence of session t after the words of payload went in at idx
AfterInsert(t, idx, payload) ==
    rebuild_sentence(InsertAt(t.words, idx, parse_words(payload)))

\* C15: when a word insert makes the edited sentence re-parse into k > 1
\* sentences, the first of them takes the place of the edited sentence, the
\* other k-1 follow it in order, the later sentences keep content and order,
\* k-1 places to the right, and the session goes on editing the first of them.
C15_SplitInPlace ==
    [][\A idx \in 0..MaxLen, payload \in WritePayloads :
          LET t == write_task[Writer]
              n == t.sentence_num
              split == parse_sentences(AfterInsert(t, idx, payload))
          IN  (/\ WordUpdate(Writer, idx, payload, MaxLen)
               /\ idx <= Len(t.words)
               /\ parse_words(payload) # <<>>
               /\ Len(split) > 1) =>
                  /\ write_task'[Writer].sentences =
                         SubSeq(t.sentences, 1, n) \o split
                         \o SubSeq(t.sentences, n + 2, Len(t.sentences))
                  /\ write_task'[Writer].words = parse_words(split[1])]_vars

\* the sentences the WRITE handler finds in the file that ETIRW writes for sents
FileParse(sents) == parse_sentences(ReadContent(WriteOut(ss_build, sents, 1)))

\* the sentence ends in text that no delimiter closes
IsOpen(sentence) ==
    LET len == TrimmedLen(sentence, Len(sentence))
    IN  len > 0 /\ ~IsDelim(sentence[len])

\* the update (idx, payload) of the writer's session is taken and the payload,
\* whose delimiters are all single ones, ends with a single delimiter
EndsWithDelimiter(idx, payload) ==
    /\ WordUpdate(Writer, idx, payload, MaxLen)
    /\ idx <= Len(write_task[Writer].words)
    /\ sentence_has_delimiter(payload)
    /\ \A i \in 1..Len(payload) : IsDelim(payload[i]) => IsSingleDelim(payload, i)

\* C16 as stated: after an insert whose payload ends the sentence with a single
\* delimiter, the rebuilt content parses into exactly one more sentence than
\* before (the payload holding one single delimiter).
C16_SplitStability ==
    [][\A idx \in 0..MaxLen, payload \in WritePayloads :
          (EndsWithDelimiter(idx, payload) /\ NumSingleDelims(payload) = 1) =>
              Len(FileParse(Committed(write_task'[Writer]))) =
                  Len(FileParse(Committed(write_task[Writer]))) + 1]_vars

\* C16, amended: such an insert adds one sentence for every single delimiter of
\* the payload, except that a payload appended to an open sentence (text that no
\* delimiter closes) at the end of the content closes that sentence and so adds
\* one sentence less.
C16_SplitStabilityAmended ==
    [][\A idx \in 0..MaxLen, payload \in WritePayloads :
          LET t == write_task[Writer]
              closes == /\ idx = Len(t.words)
                        /\ IsOpen(rebuild_sentence(t.words))
                        /\ \A j \in (t.sentence_num + 2)..Len(t.sentences) :
                               TrimmedLen(t.sentences[j], Len(t.sentences[j])) = 0
          IN  EndsWithDelimiter(idx, payload) =>
                  Len(FileParse(Committed(write_task'[Writer]))) =
                      Len(FileParse(Committed(t))) + NumSingleDelims(payload)
                      - (IF closes THEN 1 ELSE 0)]_vars

\* the session holds one sentence more than the file it edits
C16_Witness ==
    /\ write_task[Writer].pc = "editing"
    /\ write_task[Writer].updates > 0
    /\ Len(FileParse(Committed(write_task[Writer]))) =
           SentenceCount(write_task[Writer].filename) + 1

\* the users whose WRITE session holds sentence n of file f
Holders(f, n) ==
    {u \in UserIds : /\ write_task[u].pc = "editing"
                     /\ write_task[u].filename = f
                     /\ write_task[u].sentence_num = n}

LockEntries(f, n) ==
    {i \in 1..Len(locks) : locks[i].filename = f /\ locks[i].sentence_num = n}

C8_SecondUndoDenied ==
    \A f \in EditFiles :
        (/\ op_log[f][1].op = "UNDO"
         /\ op_log[f][1].code = RESP_SUCCESS
         /\ op_log[f][2].op = "UNDO") => op_log[f][2].code = ERR_PERMISSION_DENIED

\* C9: a WRITE session that commits with ETIRW after an UNDO has set the undo
\* flag of the file clears the flag, and the UNDO that follows the commit
\* succeeds.
C9_CommitClearsUndoFlag ==
    \A f \in EditFiles :
        /\ (op_log[f][2].op = "ETIRW" /\ op_log[f][2].undone) =>
               get_undo_state(undo_states, f) = 0
        /\ (/\ op_log[f][1].op = "ETIRW"
            /\ op_log[f][1].undone
            /\ op_log[f][2].op = "UNDO") => op_log[f][2].code = RESP_SUCCESS

\* an UNDO succeeded right after a commit that had found the undo flag set
C9_Witness ==
    \E f \in EditFiles :
        /\ op_log[f][1].op = "ETIRW"
        /\ op_log[f][1].undone
        /\ op_log[f][2].op = "UNDO"
        /\ op_log[f][2].code = RESP_SUCCESS

\* C12: when the connection of an edit session drops after the session took its
\* sentence lock and before ETIRW, the lock is released: the lock list holds no
\* entry of the dropped session for its (file, sentence).
C12_DropReleasesLock ==
    \A u \in UserIds :
        write_task[u].pc = "dropped" =>
            ~\E i \in 1..Len(locks) : /\ locks[i].filename = write_task[u].filename
                                      /\ locks[i].sentence_num = write_task[u].sentence_num
                                      /\ locks[i].locked_by = u

\* C13: an edit session that ends on a dropped connection leaves the file and
\* its undo flag alone: neither its word updates nor its end change the file
\* text or the undo flag.
C13_DropLeavesFile ==
    [][\A u \in UserIds :
          (/\ write_task[u].pc = "editing"
           /\ write_task'[u] # write_task[u]
           /\ write_task'[u].pc \in {"editing", "dropped"}) =>
              /\ storage_dir' = storage_dir
              /\ undo_states' = undo_states]_vars

\* a session was dropped after it had taken word updates, and the file holds text
C13_Witness ==
    \E u \in UserIds :
        /\ write_task[u].pc = "dropped"
        /\ write_task[u].updates > 0
        /\ storage_dir[write_task[u].filename] # NoFile

\* text without the whitespace that follows a delimiter and without the
\* whitespace at its end
RECURSIVE Squeeze(_, _, _)
Squeeze(s, p, acc) ==
    IF p > Len(s) THEN SubSeq(acc, 1, TrimmedLen(acc, Len(acc)))
    ELSE IF (isspace(s[p]) \/ s[p] = "\n") /\ acc # <<>> /\ IsDelim(acc[Len(acc)])
         THEN Squeeze(s, p + 1, acc)
         ELSE Squeeze(s, p + 1, Append(acc, IF s[p] = "\n" THEN " " ELSE s[p]))

\* the file text ETIRW writes for the sentences of content equals content up to
\* the whitespace between sentences
SameUpToWhitespace ==
    Squeeze(WriteOut(ss_build, sentences, 1), 1, <<>>) = Squeeze(content, 1, <<>>)

\* C17: for any content B, the file text rebuilt from parse_sentences(B) equals B
\* up to the whitespace between sentences, and the sentences the WRITE handler
\* parses from the rebuilt text are the same sentence array.
C17_ParseRoundTrip ==
    parsed => /\ SameUpToWhitespace
              /\ FileParse(sentences) = sentences

(***************************************************************************)
(* Coordinator: naming_server/search_manager.c and the SEARCH handler of   *)
(* handle_client, next to the CREATE, DELETE and access handlers           *)
(***************************************************************************)
\* the characters of the file names
Spell(name) == IF name = "f1" THEN <<"f", "1">> ELSE <<"f", "2">>

\* the patterns the clients search for: a part of a name, and a part of a name
\* in another case
SearchPatterns == {<<"f">>, <<"F">>}

tolower(c) == IF c = "F" THEN "f" ELSE c

\* strstr: needle occurs in haystack
strstr(haystack, needle) ==
    \E o \in 0..(Len(haystack) - Len(needle)) :
        \A i \in 1..Len(needle) : haystack[o + i] = needle[i]

\* search_files, the match of one name: exact, substring, or substring after
\* both are put in lower case
Matches(name, pattern) ==
    \/ name = pattern
    \/ strstr(name, pattern)
    \/ strstr([i \in 1..Len(name) |-> tolower(name[i])],
              [i \in 1..Len(pattern) |-> tolower(pattern[i])])

\* search_files, the scan: one line per record that matches and that username
\* may read
RECURSIVE Scan(_, _, _)
Scan(table, pattern, username) ==
    IF table = <<>> THEN <<>>
    ELSE LET entry == Head(table)
             line == IF Matches(Spell(entry.name), pattern)
                        /\ check_permission(entry, username, FALSE)
                     THEN <<[name |-> entry.name, owner |-> entry.owner,
                             server |-> entry.storage_server_id]>>
                     ELSE <<>>
         IN  line \o Scan(Tail(table), pattern, username)

\* get_cached_search: the position of the first entry of the query, 0 for NULL
get_cached_search(sc, query) ==
    IF \E i \in 1..Len(sc) : sc[i].query = query
    THEN CHOOSE i \in 1..Len(sc) :
            /\ sc[i].query = query
            /\ \A j \in 1..(i - 1) : sc[j].query # query
    ELSE 0

\* cache_search_result: the entry of the query is overwritten, else a new entry
\* is put at the head (the cache holds fewer queries than SEARCH_CACHE_SIZE, so
\* nothing is evicted)
cache_search_result(sc, query, results) ==
    LET k == get_cached_search(sc, query)
    IN  IF k # 0 THEN [sc EXCEPT ![k].results = results]
        ELSE <<[query |-> query, results |-> results]>> \o sc

\* search_files: the cached results of the pattern if there are any, else the
\* scan for username, which is then cached under the pattern
search_files(sc, table, pattern, username) ==
    LET k == get_cached_search(sc, pattern)
    IN  IF k # 0 THEN [results |-> sc[k].results, cache |-> sc]
        ELSE LET results == Scan(table, pattern, username)
             IN  [results |-> results,
                  cache |-> cache_search_result(sc, pattern, results)]

\* handle_client, MSG_SEARCH
Search(c, pattern) ==
    /\ ns_up
    /\ conn[c].pc = "loop"
    /\ task[c].pc = "idle"
    /\ LET r == search_files(search_cache, file_table, pattern, conn[c].username)
       IN  /\ search_cache' = r.cache
           /\ search_log' = [n |-> 1 - search_log.n, username |-> conn[c].username,
                             pattern |-> pattern, lines |-> r.results]
    /\ UNCHANGED <<parseVars, sessVars, tableVars, diskVars, nodeVars, readVars, editVars,
                   reply_log>>

\* alice and bob are logged in and both registered; node ss1 is registered and
\* serves; no file exists yet
SearchInit ==
    /\ registered_users = {"alice", "bob"}
    /\ active_sessions = <<[username |-> "bob", client_socket |-> 2],
                           [username |-> "alice", client_socket |-> 1]>>
    /\ conn = [c \in Conns |->
                 IF c = 1 THEN [pc |-> "loop", username |-> "alice",
                                reply |-> RESP_SUCCESS, registering |-> TRUE]
                 ELSE IF c = 2 THEN [pc |-> "loop", username |-> "bob",
                                     reply |-> RESP_SUCCESS, registering |-> TRUE]
                 ELSE [pc |-> "closed", username |-> "unknown",
                       reply |-> NO_REPLY, registering |-> FALSE]]
    /\ storage_servers = <<[id |-> "ss1", is_active |-> 1, failed |-> 0, ss_socket |-> 1]>>
    /\ ss_chan = [n \in NodeIds |-> [reqs |-> <<>>, resps |-> <<>>]]
    /\ node_up = [n \in NodeIds |-> n = "ss1"]
    /\ node_files = [n \in NodeIds |-> {}]
    /\ task = [c \in Conns |-> IdleTask]
    /\ hb = IdleHb
    /\ TableIdle
    /\ ParseIdle
    /\ ReadIdle
    /\ EditIdle
    /\ SearchIdle
    /\ ReplyIdle

SearchNext ==
    \/ \E c \in Conns, f \in RegistryFiles : CreateSend(c, f, "")
    \/ \E c \in Conns : CreateRecv(c)
    \/ \E c \in Conns, f \in RegistryFiles : DeleteSend(c, f)
    \/ \E c \in Conns : DeleteRecv(c)
    \/ \E n \in NodeIds : NodeServe(n)
    \/ \E c \in Conns, f \in RegistryFiles, t \in UserIds : AddAccess(c, f, t, 1)
    \/ \E c \in Conns, f \in RegistryFiles, t \in UserIds : RemAccess(c, f, t)
    \/ \E c \in Conns, pattern \in SearchPatterns : Search(c, pattern)

SpecSearch == SearchInit /\ [][SearchNext]_vars

\* C18: after any CREATE or DELETE request has been processed by the coordinator,
\* the search cache contains no entries.
C18_CacheEmptyAfterCreateDelete ==
    [][\A c \in Conns : (CreateRecv(c) \/ DeleteRecv(c)) => search_cache' = <<>>]_vars

\* the node answered the CREATE or DELETE of connection c with SUCCESS
NodeSaidSuccess(c) == RecvCode(task[c].ss_id, task[c].closed) = RESP_SUCCESS

\* C18 (amended): after any CREATE or DELETE request that the coordinator answers
\* with SUCCESS, the search cache contains no entries.
C18_CacheEmptyAfterSuccess ==
    [][\A c \in Conns :
          ((CreateRecv(c) \/ DeleteRecv(c)) /\ NodeSaidSuccess(c)) => search_cache' = <<>>]_vars

\* a SEARCH was answered, and therefore cached, and a later CREATE or DELETE that
\* succeeded has emptied the cache: alice was told that nothing matches and now
\* owns a file
C18_Witness ==
    /\ search_log.username = "alice"
    /\ search_log.lines = <<>>
    /\ \E i \in 1..Len(file_table) : file_table[i].owner = "alice"
    /\ search_cache = <<>>

\* username may read a file of that name
Readable(table, name, username) ==
    \E i \in 1..Len(table) :
        table[i].name = name /\ check_permission(table[i], username, FALSE)

\* C19: a SEARCH reply sent to a user lists only files which that user may read
\* (as the owner or by can_read) at the time of the request, whether the reply
\* comes from a scan of the registry or from the search cache.
C19_SearchListsReadableOnly ==
    [][\A c \in Conns, pattern \in SearchPatterns :
          Search(c, pattern) =>
              \A i \in 1..Len(search_log'.lines) :
                  Readable(file_table, search_log'.lines[i].name, conn[c].username)]_vars

(***************************************************************************)
(* Coordinator: shutdown_system, main and the registration of the nodes    *)
(* (naming_server_modular.c, persistence.c, storage_server_manager.c)      *)
(***************************************************************************)
\* the registry of the run that is shut down: alice owns f1, bob may read it
RestartTable ==
    <<[name |-> "f1", owner |-> "alice", storage_server_id |-> "ss1",
       acl |-> <<[username |-> "bob", can_read |-> 1, can_write |-> 0]>>,
       access_requests |-> <<>>, checkpoints |-> <<>>]>>

\* a running coordinator, started in either directory, in which alice is logged in;
\* node ss1 is registered and stores f1, node ss2 is down and empty
RestartInit ==
    /\ registered_users = {"alice", "bob"}
    /\ active_sessions = <<[username |-> "alice", client_socket |-> 1]>>
    /\ conn = [c \in Conns |->
                 IF c = 1 THEN [pc |-> "loop", username |-> "alice",
                                reply |-> RESP_SUCCESS, registering |-> TRUE]
                 ELSE [pc |-> "closed", username |-> "unknown",
                       reply |-> NO_REPLY, registering |-> FALSE]]
    /\ file_table = RestartTable
    /\ next_request_id = 1
    /\ registry_dat = NoFile
    /\ ns_cwd \in {"root", "naming_server"}
    /\ ns_up = TRUE
    /\ storage_servers = <<[id |-> "ss1", is_active |-> 1, failed |-> 0, ss_socket |-> 1]>>
    /\ ss_chan = [n \in NodeIds |-> [reqs |-> <<>>, resps |-> <<>>]]
    /\ node_up = [n \in NodeIds |-> n = "ss1"]
    /\ node_files = [n \in NodeIds |-> IF n = "ss1" THEN {"f1"} ELSE {}]
    /\ task = [c \in Conns |-> IdleTask]
    /\ hb = IdleHb
    /\ ParseIdle
    /\ ReadIdle
    /\ EditIdle
    /\ SearchIdle
    /\ ReplyIdle

\* no client changes the registry: what the first run held is what every later
\* run has to show
RestartNext ==
    \/ ShutdownNamingServer
    \/ \E cwd \in {"root", "naming_server"} : StartNamingServer(cwd)
    \/ \E n \in NodeIds : RegisterSS(n)
    \/ \E n \in NodeIds : NodeCrash(n)
    \/ \E k \in 1..MaxServers : SsWatchClosed(k)
    \/ HbWake
    \/ HbRecv
    \/ \E n \in NodeIds : NodeServe(n)

SpecRestart == RestartInit /\ [][RestartNext]_vars

\* the owner and the ACL entries a name resolves to, NoFile for an unknown name
Resolve(table, name) ==
    LET idx == lookup_file(table, name)
    IN  IF idx = 0 THEN NoFile
        ELSE [owner |-> table[idx].owner,
              acl |-> {table[idx].acl[k] : k \in 1..Len(table[idx].acl)}]

\* the running coordinator is a later process than the first: the session of the
\* first run is gone
Restarted == ns_up /\ active_sessions = <<>>

\* C20: after an orderly shutdown and restart of the coordinator, once the nodes
\* have registered again, every file that was in the registry before the shutdown
\* resolves to the same owner and the same ACL entries as before.
C20_RestartPreservesRegistry ==
    (Restarted /\ \A n \in NodeIds : node_up[n]) =>
        \A i \in 1..Len(RestartTable) :
            Resolve(file_table, RestartTable[i].name)
                = Resolve(RestartTable, RestartTable[i].name)

(***************************************************************************)
(* Coordinator: the node list under both coordinator programs              *)
(* (storage_server_manager.c and naming_server.c, register_storage_server, *)
(* get_available_ss, heartbeat_monitor)                                    *)
(***************************************************************************)
\* a fresh coordinator of either program; alice is logged in; the nodes are down
\* and hold whatever earlier runs left in their storage directories
NodeListInit ==
    /\ ns_build \in {"modular", "monolithic"}
    /\ cache = {}
    /\ backups = {}
    /\ read_log = NoRead
    /\ registered_users = {"alice"}
    /\ active_sessions = <<[username |-> "alice", client_socket |-> 1]>>
    /\ conn = [c \in Conns |->
                 IF c = 1 THEN [pc |-> "loop", username |-> "alice",
                                reply |-> RESP_SUCCESS, registering |-> TRUE]
                 ELSE [pc |-> "closed", username |-> "unknown",
                       reply |-> NO_REPLY, registering |-> FALSE]]
    /\ storage_servers = <<>>
    /\ ss_chan = [n \in NodeIds |-> [reqs |-> <<>>, resps |-> <<>>]]
    /\ node_up = [n \in NodeIds |-> FALSE]
    /\ node_files \in [NodeIds -> SUBSET RegistryFiles]
    /\ task = [c \in Conns |-> IdleTask]
    /\ hb = IdleHb
    /\ TableIdle
    /\ ParseIdle
    /\ EditIdle
    /\ SearchIdle
    /\ ReplyIdle

NodeListNext ==
    \/ \E n \in NodeIds : RegisterSS(n)
    \/ \E n \in NodeIds : NodeCrash(n)
    \/ \E n \in NodeIds : NodeServe(n)
    \/ \E k \in 1..MaxServers : SsWatchClosed(k)
    \/ \E c \in Conns, f \in RegistryFiles, target \in NodeIds \cup {""} : CreateSend(c, f, target)
    \/ \E c \in Conns : CreateRecv(c)
    \/ HbWake
    \/ HbRecv

SpecNodeList == NodeListInit /\ [][NodeListNext]_vars

\* C21: when a node whose id is already known registers again, every file record
\* that existed before keeps its owner, its ACL entries and its other metadata,
\* and records are added only for announced names the registry did not hold.
C21_RejoinPreservesRecords ==
    [][\A n \in NodeIds :
          (RegisterSS(n) /\ find_ss_by_id(storage_servers, n) # 0) =>
              LET added == Len(file_table') - Len(file_table)
              IN  /\ added >= 0
                  /\ SubSeq(file_table', added + 1, Len(file_table')) = file_table
                  /\ \A i \in 1..added :
                         lookup_file(file_table, file_table'[i].name) = 0]_vars

\* C22: the node list holds at most one record per node id at all times.
C22_OneRecordPerId ==
    \A i, j \in 1..Len(storage_servers) :
        i # j => storage_servers[i].id # storage_servers[j].id

\* the positions of the active records; the list is newest first, so a larger
\* position is an earlier registration
ActiveRecords == {i \in 1..Len(storage_servers) : storage_servers[i].is_active = 1}

\* connection c sends a CREATE without node id and the handler forwards it
ForwardsDefault(c) ==
    /\ \E f \in RegistryFiles : CreateSend(c, f, "")
    /\ task'[c].pc = "create_recv"

\* C26: a CREATE that carries no node id is forwarded to the earliest-registered
\* node among the nodes that are active.
C26_DefaultNodeEarliest ==
    [][\A c \in Conns :
          ForwardsDefault(c) =>
              \E i \in ActiveRecords :
                  /\ \A j \in ActiveRecords : j <= i
                  /\ storage_servers[i].id = task'[c].ss_id]_vars

\* C26 (amended): a CREATE that carries no node id is forwarded to the node whose
\* record is the newest among the active ones.
C26_DefaultNodeNewest ==
    [][\A c \in Conns :
          ForwardsDefault(c) =>
              \E i \in ActiveRecords :
                  /\ \A j \in ActiveRecords : j >= i
                  /\ storage_servers[i].id = task'[c].ss_id]_vars

\* a CREATE without node id is on its way to ss2, the newer of two active nodes
C26_Witness ==
    /\ \E c \in Conns : task[c].pc = "create_recv" /\ task[c].ss_id = "ss2"
    /\ Len(storage_servers) = 2
    /\ storage_servers[1].id = "ss2" /\ storage_servers[1].is_active = 1
    /\ storage_servers[2].id = "ss1" /\ storage_servers[2].is_active = 1

\* node n is marked FAILED: it has records and none of them is active
MarkedFailed(n) ==
    /\ \E i \in 1..Len(storage_servers) :
           storage_servers[i].id = n /\ storage_servers[i].failed = 1
    /\ \A i \in 1..Len(storage_servers) :
           storage_servers[i].id = n => storage_servers[i].is_active = 0

\* node n is ACTIVE: one of its records is active
MarkedActive(n) ==
    \E i \in 1..Len(storage_servers) :
        storage_servers[i].id = n /\ storage_servers[i].is_active = 1

C24_LoopOnlyAfterRegistration ==
    \A c \in Conns :
        conn[c].pc = "loop" => (conn[c].registering /\ conn[c].reply = RESP_SUCCESS)

(***************************************************************************)
(* Coordinator: naming_server/checkpoint_manager.c and the CHECKPOINT      *)
(* handler of handle_client                                                *)
(***************************************************************************)
CheckpointTags == {"t1", "t2"}

\* add_checkpoint: -1 when the record has a checkpoint of that tag, else a new
\* checkpoint at the head of the list
add_checkpoint(entry, tag, creator) ==
    IF \E i \in 1..Len(entry.checkpoints) : entry.checkpoints[i].tag = tag
    THEN [rc |-> -1, entry |-> entry]
    ELSE [rc |-> 0,
          entry |-> [entry EXCEPT !.checkpoints =
                        <<[tag |-> tag, creator |-> creator]>> \o @]]

\* handle_client, MSG_CHECKPOINT up to the send on the node's control socket: the
\* record is looked up, the permission is checked, the checkpoint is added to the
\* index, and then the node is looked for
CheckpointSend(c, f, tag) ==
    /\ ns_up
    /\ conn[c].pc = "loop"
    /\ task[c].pc = "idle"
    /\ LET idx == lookup_file(file_table, f)
           allowed == idx # 0 /\ (\/ file_table[idx].owner = conn[c].username
                                  \/ check_permission(file_table[idx], conn[c].username, TRUE))
           r == add_checkpoint(file_table[idx], tag, conn[c].username)
           k == find_ss_by_id(storage_servers, file_table[idx].storage_server_id)
       IN  IF ~allowed
           THEN UNCHANGED <<file_table, ss_chan, task>>
           ELSE IF r.rc < 0
           THEN UNCHANGED <<file_table, ss_chan, task>>
           ELSE /\ file_table' = [file_table EXCEPT ![idx] = r.entry]
                /\ IF k = 0
                   THEN UNCHANGED <<ss_chan, task>>
                   ELSE IF storage_servers[k].is_active # 1 \/ storage_servers[k].ss_socket < 0
                   THEN UNCHANGED <<ss_chan, task>>
                   ELSE /\ ChanSend(storage_servers[k].id, storage_servers[k].ss_socket,
                                    [type |-> "CHECKPOINT", filename |-> f])
                        /\ task' = [task EXCEPT ![c] =
                               [pc |-> "checkpoint_recv", filename |-> f,
                                ss_id |-> storage_servers[k].id,
                                closed |-> storage_servers[k].ss_socket = 0]]
    /\ UNCHANGED <<storage_servers, node_up, node_files, hb, conn, restOfRegistry>>

\* handle_client, MSG_CHECKPOINT from the recv on the control socket: the reply of
\* the node is passed on to the client
CheckpointRecv(c) ==
    /\ ns_up
    /\ task[c].pc = "checkpoint_recv"
    /\ CanRecv(task[c].ss_id, task[c].closed)
    /\ ChanRecv(task[c].ss_id, task[c].closed)
    /\ task' = [task EXCEPT ![c] = IdleTask]
    /\ UNCHANGED <<storage_servers, file_table, node_up, node_files, hb, conn, restOfRegistry>>

\* alice is logged in and owns f1, which the registry assigns to node ss1; ss1 is
\* registered and serves; its copy of f1 may be missing
CheckpointInit ==
    /\ registered_users = {"alice"}
    /\ active_sessions = <<[username |-> "alice", client_socket |-> 1]>>
    /\ conn = [c \in Conns |->
                 IF c = 1 THEN [pc |-> "loop", username |-> "alice",
                                reply |-> RESP_SUCCESS, registering |-> TRUE]
                 ELSE [pc |-> "closed", username |-> "unknown",
                       reply |-> NO_REPLY, registering |-> FALSE]]
    /\ file_table = add_file(<<>>, "f1", "alice", "ss1")
    /\ next_request_id = 1
    /\ registry_dat = NoFile
    /\ ns_cwd = "root"
    /\ ns_up = TRUE
    /\ storage_servers = <<[id |-> "ss1", is_active |-> 1, failed |-> 0, ss_socket |-> 1]>>
    /\ ss_chan = [n \in NodeIds |-> [reqs |-> <<>>, resps |-> <<>>]]
    /\ node_up = [n \in NodeIds |-> n = "ss1"]
    /\ node_files \in {[n \in NodeIds |-> IF n = "ss1" THEN fs ELSE {}] : fs \in SUBSET {"f1"}}
    /\ task = [c \in Conns |-> IdleTask]
    /\ hb = IdleHb
    /\ ParseIdle
    /\ ReadIdle
    /\ EditIdle
    /\ SearchIdle
    /\ ReplyIdle

CheckpointNext ==
    \/ \E c \in Conns, f \in RegistryFiles, tag \in CheckpointTags : CheckpointSend(c, f, tag)
    \/ \E c \in Conns : CheckpointRecv(c)
    \/ \E n \in NodeIds : NodeServe(n)
    \/ \E n \in NodeIds : NodeCrash(n)
    \/ \E n \in NodeIds : RegisterSS(n)
    \/ \E k \in 1..MaxServers : SsWatchClosed(k)
    \/ HbWake
    \/ HbRecv

SpecCheckpoint == CheckpointInit /\ [][CheckpointNext]_vars

\* the checkpoint index: the <<file name, tag>> of every checkpoint record
CheckpointIndex(table) ==
    UNION {{<<table[i].name, table[i].checkpoints[k].tag>> :
                k \in 1..Len(table[i].checkpoints)} : i \in 1..Len(table)}

\* C30: a checkpoint record is added to the index only when the owning node has
\* made the copy; a CHECKPOINT that fails leaves the index unchanged.  Here: a
\* CHECKPOINT that the coordinator ends itself, without a frame to the node,
\* leaves the index as it was.
C30_IndexOnlyOnSuccess ==
    [][\A c \in Conns, f \in RegistryFiles, tag \in CheckpointTags :
          (CheckpointSend(c, f, tag) /\ task'[c].pc # "checkpoint_recv") =>
              CheckpointIndex(file_table') = CheckpointIndex(file_table)]_vars

(***************************************************************************)
(* Coordinator: who may DELETE                                             *)
(***************************************************************************)
\* alice and bob are logged in; node ss1 is registered and serves; no file
\* exists yet
DeleteInit ==
    /\ registered_users = {"alice", "bob"}
    /\ active_sessions = <<[username |-> "bob", client_socket |-> 2],
                           [username |-> "alice", client_socket |-> 1]>>
    /\ conn = [c \in Conns |->
                 IF c = 1 THEN [pc |-> "loop", username |-> "alice",
                                reply |-> RESP_SUCCESS, registering |-> TRUE]
                 ELSE IF c = 2 THEN [pc |-> "loop", username |-> "bob",
                                     reply |-> RESP_SUCCESS, registering |-> TRUE]
                 ELSE [pc |-> "closed", username |-> "unknown",
                       reply |-> NO_REPLY, registering |-> FALSE]]
    /\ storage_servers = <<[id |-> "ss1", is_active |-> 1, failed |-> 0, ss_socket |-> 1]>>
    /\ ss_chan = [n \in NodeIds |-> [reqs |-> <<>>, resps |-> <<>>]]
    /\ node_up = [n \in NodeIds |-> n = "ss1"]
    /\ node_files = [n \in NodeIds |-> {}]
    /\ task = [c \in Conns |-> IdleTask]
    /\ hb = IdleHb
    /\ TableIdle
    /\ ParseIdle
    /\ ReadIdle
    /\ EditIdle
    /\ SearchIdle
    /\ ReplyIdle

DeleteNext ==
    \/ \E c \in Conns, f \in RegistryFiles : CreateSend(c, f, "")
    \/ \E c \in Conns : CreateRecv(c)
    \/ \E c \in Conns, f \in RegistryFiles : DeleteTraced(c, f)
    \/ \E c \in Conns : DeleteRecv(c)
    \/ \E n \in NodeIds : NodeServe(n)
    \/ \E n \in NodeIds : NodeCrash(n)
    \/ \E k \in 1..MaxServers : SsWatchClosed(k)
    \/ \E c \in Conns, f \in RegistryFiles, t \in UserIds, flags \in {1, 3} :
          AddAccess(c, f, t, flags)
    \/ \E c \in Conns, f \in RegistryFiles, t \in UserIds : RemAccess(c, f, t)

SpecDelete == DeleteInit /\ [][DeleteNext]_vars

\* C25: a DELETE from a user who is not the owner of the file, a user with write
\* access in the ACL included, is answered Denied; the registry keeps the record
\* and nothing is sent to the node.
C25_OnlyOwnerDeletes ==
    [][\A c \in Conns, f \in RegistryFiles :
          LET idx == lookup_file(file_table, f)
          IN  (DeleteTraced(c, f) /\ idx # 0 /\ file_table[idx].owner # conn[c].username) =>
                  /\ reply_log'.n # reply_log.n
                  /\ reply_log'.code = ERR_PERMISSION_DENIED
                  /\ file_table' = file_table
                  /\ ss_chan' = ss_chan]_vars

\* bob, who holds write access to alice's f1, was refused
C25_Witness ==
    LET idx == lookup_file(file_table, "f1")
    IN  /\ idx # 0
        /\ file_table[idx].owner = "alice"
        /\ check_permission(file_table[idx], "bob", TRUE)
        /\ reply_log.type = "DELETE"
        /\ reply_log.username = "bob"
        /\ reply_log.filename = "f1"
        /\ reply_log.code = ERR_PERMISSION_DENIED

(***************************************************************************)
(* Coordinator: access requests                                            *)
(***************************************************************************)
\* alice and bob are logged in; alice owns f1
RequestInit ==
    /\ registered_users = {"alice", "bob"}
    /\ active_sessions = <<[username |-> "bob", client_socket |-> 2],
                           [username |-> "alice", client_socket |-> 1]>>
    /\ conn = [c \in Conns |->
                 IF c = 1 THEN [pc |-> "loop", username |-> "alice",
                                reply |-> RESP_SUCCESS, registering |-> TRUE]
                 ELSE IF c = 2 THEN [pc |-> "loop", username |-> "bob",
                                     reply |-> RESP_SUCCESS, registering |-> TRUE]
                 ELSE [pc |-> "closed", username |-> "unknown",
                       reply |-> NO_REPLY, registering |-> FALSE]]
    /\ file_table = add_file(<<>>, "f1", "alice", "ss1")
    /\ next_request_id = 1
    /\ registry_dat = NoFile
    /\ ns_cwd = "root"
    /\ ns_up = TRUE
    /\ ParseIdle
    /\ NodesIdle
    /\ ReadIdle
    /\ EditIdle
    /\ SearchIdle
    /\ ReplyIdle

RequestNext ==
    \/ \E c \in Conns, f \in FileNames, ty \in {1, 2, 3} : RequestTraced(c, f, ty)
    \/ \E c \in Conns, f \in FileNames, id \in 1..MaxReq, approve \in {0, 1} :
           RespondRequest(c, f, id, approve)
    \/ \E c \in Conns, f \in FileNames, t \in UserIds : RemAccess(c, f, t)

SpecRequest == RequestInit /\ [][RequestNext]_vars

\* the pending requests of a requester on a record
Pending(entry, requester) ==
    {i \in 1..Len(entry.access_requests) :
        /\ entry.access_requests[i].requester = requester
        /\ entry.access_requests[i].status = 0}

\* C29: a record holds at most one pending request of a requester, and a
\* REQUESTACCESS of a requester with a pending request on the file is turned away
\* and adds nothing.
C29_OnePendingPerRequester ==
    /\ [](\A i \in 1..Len(file_table), u \in UserIds :
             Cardinality(Pending(file_table[i], u)) <= 1)
    /\ [][\A c \in Conns, f \in FileNames, ty \in {1, 2, 3} :
             LET idx == lookup_file(file_table, f)
             IN  (/\ RequestTraced(c, f, ty)
                  /\ idx # 0
                  /\ Pending(file_table[idx], conn[c].username) # {}) =>
                     /\ reply_log'.n # reply_log.n
                     /\ reply_log'.code = ERR_FILE_EXISTS
                     /\ tableVars' = tableVars]_vars

\* bob asked again while his request on f1 was pending and was turned away
C29_Witness ==
    /\ reply_log.type = "REQUESTACCESS"
    /\ reply_log.username = "bob"
    /\ reply_log.code = ERR_FILE_EXISTS
    /\ Cardinality(Pending(file_table[lookup_file(file_table, "f1")], "bob")) = 1

(***************************************************************************)
(* Coordinator: VIEW, the handler that walks the registry under table_lock *)
(***************************************************************************)
\* handle_client, MSG_VIEW with the details flag, the walk over the records: the
\* next record from i on that is listed and whose node is active with a socket
RECURSIVE ViewWalk(_, _, _, _, _)
ViewWalk(table, servers, username, show_all, i) ==
    IF i > Len(table) THEN 0
    ELSE LET k == find_ss_by_id(servers, table[i].storage_server_id)
         IN  IF /\ (show_all \/ check_permission(table[i], username, FALSE))
                /\ k # 0
                /\ servers[k].is_active = 1
                /\ servers[k].ss_socket >= 0
             THEN i
             ELSE ViewWalk(table, servers, username, show_all, i + 1)

\* the walk stops at record j and asks its node for the size of the file, or it
\* is over (j = 0): table_lock is released and the list goes to the client
ViewContinue(c, show_all, j, chan) ==
    IF j = 0
    THEN /\ task' = [task EXCEPT ![c] = IdleTask]
         /\ ss_chan' = chan
    ELSE LET k == find_ss_by_id(storage_servers, file_table[j].storage_server_id)
             ss == storage_servers[k]
         IN  /\ task' = [task EXCEPT ![c] =
                    [pc |-> "view_recv", filename |-> file_table[j].name, ss_id |-> ss.id,
                     closed |-> ss.ss_socket = 0, idx |-> j, show_all |-> show_all]]
             /\ ss_chan' = IF ss.ss_socket = 1
                           THEN [chan EXCEPT ![ss.id].reqs =
                                    Append(@, [type |-> "INFO", filename |-> file_table[j].name])]
                           ELSE chan

\* handle_client, MSG_VIEW: table_lock is taken, which waits for a walk that holds
\* it, and the walk starts; without the details flag no node is asked and the
\* walk is one step
ViewSend(c, show_all, show_details) ==
    /\ ns_up
    /\ conn[c].pc = "loop"
    /\ task[c].pc = "idle"
    /\ \A d \in Conns : task[d].pc # "view_recv"
    /\ IF show_details
       THEN ViewContinue(c, show_all,
                         ViewWalk(file_table, storage_servers, conn[c].username, show_all, 1),
                         ss_chan)
       ELSE UNCHANGED <<ss_chan, task>>
    /\ UNCHANGED <<storage_servers, file_table, node_up, node_files, hb, conn, restOfRegistry>>

\* handle_client, MSG_VIEW: the recv of the node's answer returns, the walk goes
\* on behind the record
ViewRecv(c) ==
    /\ ns_up
    /\ task[c].pc = "view_recv"
    /\ CanRecv(task[c].ss_id, task[c].closed)
    /\ ViewContinue(c, task[c].show_all,
                    ViewWalk(file_table, storage_servers, conn[c].username,
                             task[c].show_all, task[c].idx + 1),
                    IF task[c].closed THEN ss_chan
                    ELSE [ss_chan EXCEPT ![task[c].ss_id].resps = Tail(@)])
    /\ UNCHANGED <<storage_servers, file_table, node_up, node_files, hb, conn, restOfRegistry>>

\* the positions of a handler between pthread_mutex_lock(&table_lock) and the
\* unlock that belongs to it
HoldsTableLock(c) == task[c].pc = "view_recv"

\* the positions of a handler inside recv_message on a node's control socket
AwaitsNode(c) == task[c].pc \in {"create_recv", "delete_recv", "checkpoint_recv", "view_recv"}

\* alice and bob are logged in; alice owns f1 on node ss1 and f2 on node ss2,
\* both registered and serving; no action of this subsystem changes the
\* registry, which table_lock protects during the walk
ViewInit ==
    /\ registered_users = {"alice", "bob"}
    /\ active_sessions = <<[username |-> "bob", client_socket |-> 2],
                           [username |-> "alice", client_socket |-> 1]>>
    /\ conn = [c \in Conns |->
                 IF c = 1 THEN [pc |-> "loop", username |-> "alice",
                                reply |-> RESP_SUCCESS, registering |-> TRUE]
                 ELSE IF c = 2 THEN [pc |-> "loop", username |-> "bob",
                                     reply |-> RESP_SUCCESS, registering |-> TRUE]
                 ELSE [pc |-> "closed", username |-> "unknown",
                       reply |-> NO_REPLY, registering |-> FALSE]]
    /\ file_table = add_file(add_file(<<>>, "f1", "alice", "ss1"), "f2", "alice", "ss2")
    /\ next_request_id = 1
    /\ registry_dat = NoFile
    /\ ns_cwd = "root"
    /\ ns_up = TRUE
    /\ storage_servers = <<[id |-> "ss2", is_active |-> 1, failed |-> 0, ss_socket |-> 1],
                           [id |-> "ss1", is_active |-> 1, failed |-> 0, ss_socket |-> 1]>>
    /\ ss_chan = [n \in NodeIds |-> [reqs |-> <<>>, resps |-> <<>>]]
    /\ node_up = [n \in NodeIds |-> TRUE]
    /\ node_files = [n \in NodeIds |-> IF n = "ss1" THEN {"f1"} ELSE {"f2"}]
    /\ task = [c \in Conns |-> IdleTask]
    /\ hb = IdleHb
    /\ ParseIdle
    /\ ReadIdle
    /\ EditIdle
    /\ SearchIdle
    /\ ReplyIdle

ViewNext ==
    \/ \E c \in Conns, show_all \in BOOLEAN, show_details \in BOOLEAN :
          ViewSend(c, show_all, show_details)
    \/ \E c \in Conns : ViewRecv(c)
    \/ \E n \in NodeIds : NodeServe(n)
    \/ \E n \in NodeIds : NodeCrash(n)
    \/ \E k \in 1..MaxServers : SsWatchClosed(k)
    \/ HbWake
    \/ HbRecv

SpecView == ViewInit /\ [][ViewNext]_vars

\* C27: no handler of the coordinator is inside network or file I/O while it holds
\* a metadata lock; here table_lock and the recv on a node's control socket.
C27_NoIoUnderLock == \A c \in Conns : ~(HoldsTableLock(c) /\ AwaitsNode(c))

(***************************************************************************)
(* Coordinator: a permission check next to ACL updates and deletions       *)
(***************************************************************************)
\* what a permission check of the record of f answers
PermCode(table, username, f) ==
    LET idx == lookup_file(table, f)
    IN  IF idx = 0 THEN ERR_FILE_NOT_FOUND
        ELSE IF check_permission(table[idx], username, FALSE) THEN RESP_SUCCESS
        ELSE ERR_PERMISSION_DENIED

\* handle_client, MSG_READ: lookup_file takes table_lock, finds the record and
\* returns a pointer to it with the lock released; before keeps what a check at
\* this moment answers
PermLookup(c, f) ==
    /\ ns_up
    /\ conn[c].pc = "loop"
    /\ task[c].pc = "idle"
    /\ IF lookup_file(file_table, f) = 0
       THEN UNCHANGED task
       ELSE task' = [task EXCEPT ![c] =
                [pc |-> "check_permission", filename |-> f, ss_id |-> "", closed |-> FALSE,
                 before |-> PermCode(file_table, conn[c].username, f)]]
    /\ UNCHANGED <<storage_servers, file_table, ss_chan, node_up, node_files, hb, conn,
                   restOfRegistry>>

\* handle_client, MSG_READ: check_permission reads owner and ACL through the
\* pointer, without a lock.  No action of this subsystem adds a record, so the
\* record is freed exactly when the registry has no record of the name; reading
\* it then is undefined and the check may answer either way
PermCheck(c, freed_says) ==
    /\ ns_up
    /\ task[c].pc = "check_permission"
    /\ LET idx == lookup_file(file_table, task[c].filename)
           allowed == IF idx = 0 THEN freed_says
                      ELSE check_permission(file_table[idx], conn[c].username, FALSE)
       IN  reply_log' = [n |-> 1 - reply_log.n, type |-> "READ",
                         username |-> conn[c].username, filename |-> task[c].filename,
                         code |-> IF allowed THEN RESP_SUCCESS ELSE ERR_PERMISSION_DENIED]
    /\ task' = [task EXCEPT ![c] = IdleTask]
    /\ UNCHANGED <<storage_servers, file_table, ss_chan, node_up, node_files, hb, conn,
                   restOfDelete>>

\* alice and bob are logged in; alice owns f1 on node ss1, which is registered
\* and serves
PermInit ==
    /\ registered_users = {"alice", "bob"}
    /\ active_sessions = <<[username |-> "bob", client_socket |-> 2],
                           [username |-> "alice", client_socket |-> 1]>>
    /\ conn = [c \in Conns |->
                 IF c = 1 THEN [pc |-> "loop", username |-> "alice",
                                reply |-> RESP_SUCCESS, registering |-> TRUE]
                 ELSE IF c = 2 THEN [pc |-> "loop", username |-> "bob",
                                     reply |-> RESP_SUCCESS, registering |-> TRUE]
                 ELSE [pc |-> "closed", username |-> "unknown",
                       reply |-> NO_REPLY, registering |-> FALSE]]
    /\ file_table = add_file(<<>>, "f1", "alice", "ss1")
    /\ next_request_id = 1
    /\ registry_dat = NoFile
    /\ ns_cwd = "root"
    /\ ns_up = TRUE
    /\ storage_servers = <<[id |-> "ss1", is_active |-> 1, failed |-> 0, ss_socket |-> 1]>>
    /\ ss_chan = [n \in NodeIds |-> [reqs |-> <<>>, resps |-> <<>>]]
    /\ node_up = [n \in NodeIds |-> n = "ss1"]
    /\ node_files = [n \in NodeIds |-> IF n = "ss1" THEN {"f1"} ELSE {}]
    /\ task = [c \in Conns |-> IdleTask]
    /\ hb = IdleHb
    /\ ParseIdle
    /\ ReadIdle
    /\ EditIdle
    /\ SearchIdle
    /\ ReplyIdle

PermNext ==
    \/ \E c \in Conns, f \in RegistryFiles : PermLookup(c, f)
    \/ \E c \in Conns, freed_says \in BOOLEAN : PermCheck(c, freed_says)
    \/ \E c \in Conns, f \in RegistryFiles : DeleteSend(c, f)
    \/ \E c \in Conns : DeleteRecv(c)
    \/ \E n \in NodeIds : NodeServe(n)
    \/ \E c \in Conns, f \in RegistryFiles, t \in UserIds : AddAccess(c, f, t, 1)
    \/ \E c \in Conns, f \in RegistryFiles, t \in UserIds : RemAccess(c, f, t)

SpecPerm == PermInit /\ [][PermNext]_vars

\* C28: a permission check that runs next to an ADDACCESS, REMACCESS or DELETE
\* answers as the registry before the update or as the registry after it says,
\* never from a record that is partially updated or already deleted.
C28_CheckSeesBeforeOrAfter ==
    [][\A c \in Conns, freed_says \in BOOLEAN :
          PermCheck(c, freed_says) =>
              reply_log'.code \in {task[c].before,
                                   PermCode(file_table, conn[c].username, task[c].filename)}]_vars

(***************************************************************************)
(* Coordinator: WRITE and UNDO, answered with a referral                   *)
(***************************************************************************)
ReferReply_readers(table, servers, username, f) ==
    LET idx == lookup_file(table, f)
        k == find_ss_by_id(servers, table[idx].storage_server_id)
    IN  IF idx = 0 THEN ERR_FILE_NOT_FOUND
        ELSE IF ~check_permission(table[idx], username, FALSE) THEN ERR_PERMISSION_DENIED
        ELSE IF k = 0 THEN ERR_SS_UNAVAILABLE
        ELSE IF servers[k].is_active # 1 THEN ERR_SS_UNAVAILABLE
        ELSE RESP_SS_INFO

\* handle_client, MSG_WRITE and MSG_UNDO: the code of the reply
ReferReply(table, servers, username, f) ==
    LET idx == lookup_file(table, f)
        k == find_ss_by_id(servers, table[idx].storage_server_id)
    IN  IF idx = 0 THEN ERR_FILE_NOT_FOUND
        ELSE IF ~check_permission(table[idx], username, TRUE) THEN ERR_PERMISSION_DENIED
        ELSE IF k = 0 THEN ERR_SS_UNAVAILABLE
        ELSE IF servers[k].is_active # 1 THEN ERR_SS_UNAVAILABLE
        ELSE RESP_SS_INFO

\* handle_client, MSG_WRITE (op = "WRITE") and MSG_UNDO (op = "UNDO"): the reply
\* is kept in reply_log
Refer(c, f, op) ==
    /\ ns_up
    /\ conn[c].pc = "loop"
    /\ task[c].pc = "idle"
    /\ reply_log' = [n |-> 1 - reply_log.n, type |-> op,
                     username |-> conn[c].username, filename |-> f,
                     code |-> ReferReply(file_table, storage_servers, conn[c].username, f)]
    /\ UNCHANGED <<nodeVars, sessVars, tableVars, diskVars, parseVars, readVars, editVars,
                   searchVars>>

ReferNext ==
    \/ \E c \in Conns, f \in RegistryFiles, op \in {"WRITE", "UNDO"} : Refer(c, f, op)
    \/ \E c \in Conns, f \in RegistryFiles, t \in UserIds, flags \in {1, 3} :
          AddAccess(c, f, t, flags)
    \/ \E c \in Conns, f \in RegistryFiles, t \in UserIds : RemAccess(c, f, t)
    \/ \E n \in NodeIds : NodeCrash(n)
    \/ \E n \in NodeIds : NodeServe(n)
    \/ \E k \in 1..MaxServers : SsWatchClosed(k)
    \/ HbWake
    \/ HbRecv

\* starts as the permission-check subsystem does: alice and bob logged in, alice
\* owns f1 on the serving node ss1
SpecRefer == PermInit /\ [][ReferNext]_vars

\* whether the requester of step Refer(c, f, op) may write f
MayWrite(c, f) ==
    check_permission(file_table[lookup_file(file_table, f)], conn[c].username, TRUE)

\* whether the node of f is registered and active
NodeActive(f) ==
    LET k == find_ss_by_id(storage_servers,
                           file_table[lookup_file(file_table, f)].storage_server_id)
    IN  k # 0 /\ storage_servers[k].is_active = 1

\* C31: for an existing file a WRITE or UNDO is answered with a referral if and
\* only if the requester has write permission.
C31_ReferralIffWriter ==
    [][\A c \in Conns, f \in RegistryFiles, op \in {"WRITE", "UNDO"} :
          (Refer(c, f, op) /\ lookup_file(file_table, f) # 0) =>
              (reply_log'.code = RESP_SS_INFO <=> MayWrite(c, f))]_vars

\* C31, amended: ... if and only if the requester has write permission and the
\* node of the file is registered and active; a requester without write
\* permission is answered Denied.
C31_ReferralIffWriterAndActive ==
    [][\A c \in Conns, f \in RegistryFiles, op \in {"WRITE", "UNDO"} :
          (Refer(c, f, op) /\ lookup_file(file_table, f) # 0) =>
              /\ reply_log'.code = RESP_SS_INFO <=> (MayWrite(c, f) /\ NodeActive(f))
              /\ ~MayWrite(c, f) => reply_log'.code = ERR_PERMISSION_DENIED]_vars

\* bob, who holds write access to alice's f1, was referred to the node
C31_Witness ==
    /\ reply_log.type = "WRITE"
    /\ reply_log.username = "bob"
    /\ reply_log.code = RESP_SS_INFO
    /\ lookup_file(file_table, "f1") # 0
    /\ check_permission(file_table[lookup_file(file_table, "f1")], "bob", TRUE)

(***************************************************************************)
(* Coordinator: MOVE, a command to the node whose reply is not read        *)
(***************************************************************************)
MaxChan == 2

\* handle_client, MSG_MOVE to the root folder: the record is looked up, write
\* permission is checked, and MSG_MOVE is sent to the node of the record when it
\* is active and has a socket; the handler does not wait for the node's reply
MoveSend(c, f) ==
    /\ ns_up
    /\ conn[c].pc = "loop"
    /\ task[c].pc = "idle"
    /\ LET idx == lookup_file(file_table, f)
           k == find_ss_by_id(storage_servers, file_table[idx].storage_server_id)
       IN  IF idx = 0
           THEN UNCHANGED ss_chan
           ELSE IF ~check_permission(file_table[idx], conn[c].username, TRUE)
           THEN UNCHANGED ss_chan
           ELSE IF k = 0
           THEN UNCHANGED ss_chan
           ELSE IF storage_servers[k].is_active # 1 \/ storage_servers[k].ss_socket < 0
           THEN UNCHANGED ss_chan
           ELSE /\ Len(ss_chan[storage_servers[k].id].reqs)
                     + Len(ss_chan[storage_servers[k].id].resps) < MaxChan
                /\ ChanSend(storage_servers[k].id, storage_servers[k].ss_socket,
                            [type |-> "MOVE", filename |-> f])
    /\ UNCHANGED <<storage_servers, file_table, node_up, node_files, task, hb, conn,
                   restOfRegistry>>

MoveNext ==
    \/ \E c \in Conns, f \in RegistryFiles : MoveSend(c, f)
    \/ \E c \in Conns, f \in RegistryFiles : CreateSend(c, f, "")
    \/ \E c \in Conns : CreateRecv(c)
    \/ \E c \in Conns, f \in RegistryFiles : DeleteSend(c, f)
    \/ \E c \in Conns : DeleteRecv(c)
    \/ \E c \in Conns, f \in RegistryFiles, tag \in CheckpointTags : CheckpointSend(c, f, tag)
    \/ \E c \in Conns : CheckpointRecv(c)
    \/ \E n \in NodeIds : NodeServe(n)
    \/ HbWake
    \/ HbRecv

\* starts with alice and bob logged in and alice's f1 on the serving node ss1
SpecMove == PermInit /\ [][MoveNext]_vars

\* the frames on the channel of node n are FIFO and the node answers every
\* command once: the reply a recv takes is the reply to the last command sent
\* exactly when it is the only frame on the channel
TakesOwnReply(n, closed) ==
    closed \/ (ss_chan[n].reqs = <<>> /\ Len(ss_chan[n].resps) = 1)

\* C32: every reply the coordinator reads from a node's control channel is the
\* node's reply to the command the coordinator sent last on that channel.
C32_RepliesMatchRequests ==
    [][/\ \A c \in Conns :
             (CreateRecv(c) \/ DeleteRecv(c) \/ CheckpointRecv(c)) =>
                 TakesOwnReply(task[c].ss_id, task[c].closed)
       /\ HbRecv => TakesOwnReply(hb.ss_id, hb.closed)]_vars

(***************************************************************************)
(* Coordinator: the control channel of a registered node                   *)
(***************************************************************************)
\* C33: while the connection of a node's accepted registration is open, the
\* node's record refers to that connection as its control channel; no task that
\* served an earlier connection of the node resets or closes it.
C33_ChannelIsThatOfRegistration ==
    \A n \in NodeIds :
        node_up[n] =>
            LET k == find_ss_by_id(storage_servers, n)
            IN  k # 0 /\ storage_servers[k].ss_socket = 1

(***************************************************************************)
(* Storage node: edit sessions that overlap                                *)
(***************************************************************************)
\* the step is the ETIRW of u's session: only ETIRW takes a handler from the edit
\* loop back to idle
Commits(u) == write_task[u].pc = "editing" /\ write_task'[u].pc = "idle"

\* C36: when two edit sessions on different sentences of a file overlap and both
\* commit, the file holds the edits of both; so a commit writes, for every
\* sentence before its own, the sentence the live file holds at that moment.
C36_CommitsKeepEachOther ==
    [][\A u \in UserIds :
          Commits(u) =>
              LET t == write_task[u]
                  live == parse_sentences(ReadContent(storage_dir[t.filename]))
              IN  \A j \in 1..t.sentence_num :
                      j <= Len(live) /\ Committed(t)[j] = live[j]]_vars

(***************************************************************************)
(* Storage node: the steps of one commit, with other handlers in between   *)
(***************************************************************************)
\* the edit loop on the frame ETIRW, up to the fclose of <name>.backup: the
\* sentence is rebuilt and the live file is copied to <name>.backup; began is
\* the live content this copy was taken from
EtirwBackup(u) ==
    /\ write_task[u].pc = "editing"
    /\ LET t == write_task[u]
           f == t.filename
           old == storage_dir[f]
       IN  /\ undo_backup' = [undo_backup EXCEPT ![f] =
                                IF old # NoFile THEN old
                                ELSE IF ss_build = "modular" THEN <<>> ELSE @]
           /\ write_task' = [write_task EXCEPT ![u] =
                  [pc |-> "committing", filename |-> f, sentence_num |-> t.sentence_num,
                   sentences |-> t.sentences, words |-> t.words, updates |-> t.updates,
                   reply |-> t.reply, word_index |-> t.word_index, began |-> old]]
    /\ UNCHANGED <<ss_build, storage_dir, backup_copy, locks, undo_states, op_log,
                   restOfEdit>>

\* the rest of the ETIRW branch: the sentences are written to <name>.tmp, which
\* is renamed over the live file; the lock is released, the reply is sent, the
\* undo flag is cleared and the file is copied to backup_dir/<name>.  before is
\* the live content the rename replaces
EtirwReplace(u) ==
    /\ write_task[u].pc = "committing"
    /\ LET t == write_task[u]
           f == t.filename
       IN  /\ storage_dir' = [storage_dir EXCEPT ![f] =
                                 WriteOut(ss_build, Committed(t), 1)]
           /\ backup_copy' = backup_copy \cup {f}
           /\ locks' = remove_sentence_lock(locks, f, t.sentence_num, u)
           /\ undo_states' = set_undo_state(undo_states, f, 0)
           /\ op_log' = [op_log EXCEPT ![f] =
                  <<@[2], [op |-> "ETIRW", code |-> RESP_SUCCESS,
                           undone |-> get_undo_state(undo_states, f) = 1,
                           began |-> t.began, before |-> storage_dir[f]]>>]
    /\ write_task' = [write_task EXCEPT ![u] = IdleWrite]
    /\ UNCHANGED <<ss_build, undo_backup, restOfEdit>>

CommitNext ==
    \/ \E u \in UserIds, f \in EditFiles, n \in EditSentences : WriteOpen(u, f, n)
    \/ \E u \in UserIds : WriteLock(u)
    \/ \E u \in UserIds, idx \in 1..2, payload \in WordPayloads :
          WordUpdate(u, idx, payload, MaxFileLen)
    \/ \E u \in UserIds : EtirwBackup(u)
    \/ \E u \in UserIds : EtirwReplace(u)
    \/ \E f \in EditFiles : Undo(f)

SpecCommit == EditInit /\ [][CommitNext]_vars

\* C34: a successful UNDO that directly follows a successful ETIRW leaves the
\* live file with the content that was live immediately before that ETIRW: the
\* content the commit took its backup from or, when another commit came in
\* between, the content its rename replaced.  No commit is under way when the
\* UNDO is served.
C34_UndoRestoresBeforeCommit ==
    [][\A f \in EditFiles :
          (/\ \A u \in UserIds : write_task[u].pc # "committing"
           /\ op_log[f][2].op = "ETIRW"
           /\ op_log[f][2].code = RESP_SUCCESS
           /\ op_log'[f][1] = op_log[f][2]
           /\ op_log'[f][2].op = "UNDO"
           /\ op_log'[f][2].code = RESP_SUCCESS)
          => storage_dir'[f] \in {op_log[f][2].began, op_log[f][2].before}]_vars

(***************************************************************************)
(* Storage node: the reply to a WRITE on a locked sentence                 *)
(***************************************************************************)
\* MSG_WRITE, the call of add_sentence_lock: on success the session starts as in
\* WriteLock; on failure the handler goes on to look the lock up.  holder is the
\* user whose lock made add_sentence_lock fail
LockTry(u) ==
    /\ write_task[u].pc = "locking"
    /\ LET t == write_task[u]
           r == add_sentence_lock(locks, t.filename, t.sentence_num, u)
       IN  /\ locks' = r.locks
           /\ write_task' = [write_task EXCEPT ![u] =
                IF r.ok
                THEN [t EXCEPT !.pc = "editing",
                               !.words = parse_words(t.sentences[t.sentence_num + 1]),
                               !.reply = RESP_SUCCESS]
                ELSE [pc |-> "locked", filename |-> t.filename,
                      sentence_num |-> t.sentence_num, sentences |-> <<>>,
                      words |-> <<>>, updates |-> 0, reply |-> NO_REPLY, word_index |-> 0,
                      holder |-> locks[find_sentence_lock(locks, t.filename,
                                                          t.sentence_num)].locked_by]]
    /\ UNCHANGED <<ss_build, storage_dir, undo_backup, backup_copy, undo_states, op_log,
                   restOfEdit>>

\* the handler answered ERR_FILE_LOCKED with data and is back in its recv_message
LockedReply(t, data) ==
    [pc |-> "idle", filename |-> t.filename, sentence_num |-> t.sentence_num,
     sentences |-> <<>>, words |-> <<>>, updates |-> 0, reply |-> ERR_FILE_LOCKED,
     word_index |-> 0, data |-> data]

\* MSG_WRITE after a failed add_sentence_lock: find_sentence_lock and the read of
\* the holder's name through the pointer it returns.  When the lock is gone the
\* pointer is NULL and the read is undefined: the process is killed (every
\* handler thread ends, the lock list is lost) or the reply carries any text
LockFind(u, garbage, killed) ==
    /\ write_task[u].pc = "locked"
    /\ LET t == write_task[u]
           k == find_sentence_lock(locks, t.filename, t.sentence_num)
       IN  IF k # 0
           THEN /\ write_task' = [write_task EXCEPT ![u] = LockedReply(t, locks[k].locked_by)]
                /\ UNCHANGED locks
           ELSE IF killed
           THEN /\ write_task' = [v \in UserIds |-> [IdleWrite EXCEPT !.pc = "dropped"]]
                /\ locks' = <<>>
           ELSE /\ write_task' = [write_task EXCEPT ![u] = LockedReply(t, garbage)]
                /\ UNCHANGED locks
    /\ UNCHANGED <<ss_build, storage_dir, undo_backup, backup_copy, undo_states, op_log,
                   restOfEdit>>

LockedNext ==
    \/ \E u \in UserIds, f \in EditFiles, n \in EditSentences : WriteOpen(u, f, n)
    \/ \E u \in UserIds : LockTry(u)
    \/ \E u \in UserIds, garbage \in UserIds \cup {""}, killed \in BOOLEAN :
          LockFind(u, garbage, killed)
    \/ \E u \in UserIds : Etirw(u)
    \/ \E u \in UserIds : WriteDisconnect(u)

SpecLocked == EditInit /\ [][LockedNext]_vars

\* C35: a WRITE turned away by add_sentence_lock is answered ERR_FILE_LOCKED
\* with the name of the user whose lock turned it away as data, also when that
\* user releases the lock before the answer is built.
C35_LockedNamesHolder ==
    [][\A u \in UserIds :
          (write_task[u].pc = "locked" /\ write_task'[u].pc # "locked")
          => /\ write_task'[u].pc = "idle"
             /\ write_task'[u].reply = ERR_FILE_LOCKED
             /\ write_task'[u].data = write_task[u].holder]_vars

(***************************************************************************)
(* Coordinator: where a READ referral points                               *)
(***************************************************************************)
\* the node the registry names for the file
NodeOf(table, f) == table[lookup_file(table, f)].storage_server_id

\* C37: whenever READ is answered with a referral, the node referred to, which
\* is the node the file's record names after the request, holds the file in its
\* storage directory; so does the node a failover reassigns the record to.
C37_ReferralNodeHoldsFile ==
    [][\A c \in Conns, f \in FileNames :
          (Read(c, f) /\ read_log'.reply = RESP_SS_INFO)
          => f \in node_files[NodeOf(file_table', f)]]_vars

(***************************************************************************)
(* Storage node: DELETE of a file that has an edit session                 *)
(***************************************************************************)
\* the command loop on MSG_DELETE: delete_file removes the file from the storage
\* directory, whatever locks and sessions there are on it
NodeDelete(f) ==
    /\ IF storage_dir[f] = NoFile
       THEN /\ op_log' = Logged(f, "DELETE", ERR_FILE_NOT_FOUND, FALSE)
            /\ UNCHANGED storage_dir
       ELSE /\ op_log' = Logged(f, "DELETE", RESP_SUCCESS, FALSE)
            /\ storage_dir' = [storage_dir EXCEPT ![f] = NoFile]
    /\ UNCHANGED <<ss_build, undo_backup, backup_copy, locks, undo_states, write_task,
                   restOfEdit>>

UnlinkNext ==
    \/ \E u \in UserIds, f \in EditFiles, n \in EditSentences : WriteOpen(u, f, n)
    \/ \E u \in UserIds : WriteLock(u)
    \/ \E u \in UserIds, idx \in 1..2, payload \in WordPayloads :
          WordUpdate(u, idx, payload, MaxFileLen)
    \/ \E u \in UserIds : Etirw(u)
    \/ \E u \in UserIds : WriteDisconnect(u)
    \/ \E f \in EditFiles : NodeDelete(f)

SpecUnlink == EditInit /\ [][UnlinkNext]_vars

\* C38: once the node has answered a DELETE of a file with success, the file
\* stays absent from the storage directory under every request but CREATE; an
\* ETIRW of a session opened before the DELETE does not bring it back.
C38_DeletedStaysDeleted ==
    [][\A f \in EditFiles :
          (/\ op_log[f][2].op = "DELETE"
           /\ op_log[f][2].code = RESP_SUCCESS
           /\ storage_dir[f] = NoFile)
          => storage_dir'[f] = NoFile]_<<op_log, write_task>>

(***************************************************************************)
(* Coordinator: whose closing removes a session entry                      *)
(***************************************************************************)
\* the names a client may log in with: the text is not checked, so also the
\* name a handler starts with before any registration
LoginNames == UserIds \cup {"unknown"}

LoginNext ==
    \E c \in Conns :
        \/ Accept(c)
        \/ \E u \in LoginNames : RegisterClientFind(c, u)
        \/ RegisterClientAdd(c)
        \/ FirstFrameOther(c)
        \/ ClientDisconnect(c)

SpecLogin == SessionInit /\ [][LoginNext]_vars

\* C39: an entry leaves the active-session list only in the step in which the
\* connection that created it, a logged-in connection in its request loop,
\* closes; the closing of a rejected login or of a connection that never
\* registered removes no entry.
C39_OnlyOwnCloseRemoves ==
    [][\A i \in 1..Len(active_sessions) :
          LET e == active_sessions[i]
          IN  (\A j \in 1..Len(active_sessions') : active_sessions'[j] # e)
              => /\ conn[e.client_socket].pc = "loop"
                 /\ conn[e.client_socket].reply = RESP_SUCCESS
                 /\ conn'[e.client_socket].pc = "closed"]_vars

(***************************************************************************)
(* Coordinator: a SEARCH that runs while the registry changes              *)
(***************************************************************************)
\* handle_client, MSG_SEARCH, search_files up to the unlock of table_lock: a hit
\* in the cache is the reply; on a miss the registry is scanned under table_lock
\* and the task goes on to cache what it found
SearchScan(c, pattern) ==
    /\ ns_up
    /\ conn[c].pc = "loop"
    /\ task[c].pc = "idle"
    /\ LET k == get_cached_search(search_cache, pattern)
       IN  IF k # 0
           THEN /\ search_log' = [n |-> 1 - search_log.n, username |-> conn[c].username,
                                  pattern |-> pattern, lines |-> search_cache[k].results]
                /\ UNCHANGED task
           ELSE /\ task' = [task EXCEPT ![c] =
                       [pc |-> "search_cache", filename |-> "", ss_id |-> "",
                        closed |-> FALSE, pattern |-> pattern,
                        lines |-> Scan(file_table, pattern, conn[c].username)]]
                /\ UNCHANGED search_log
    /\ UNCHANGED <<search_cache, storage_servers, file_table, ss_chan, node_up, node_files,
                   hb, conn, next_request_id, registered_users, active_sessions,
                   parseVars, diskVars, readVars, editVars, reply_log>>

\* search_files from cache_search_result on: what the scan found is cached under
\* the pattern and sent
SearchInsert(c) ==
    /\ ns_up
    /\ task[c].pc = "search_cache"
    /\ search_cache' = cache_search_result(search_cache, task[c].pattern, task[c].lines)
    /\ search_log' = [n |-> 1 - search_log.n, username |-> conn[c].username,
                      pattern |-> task[c].pattern, lines |-> task[c].lines]
    /\ task' = [task EXCEPT ![c] = IdleTask]
    /\ UNCHANGED <<storage_servers, file_table, ss_chan, node_up, node_files,
                   hb, conn, next_request_id, registered_users, active_sessions,
                   parseVars, diskVars, readVars, editVars, reply_log>>

SearchRaceNext ==
    \/ \E c \in Conns, f \in RegistryFiles : CreateSend(c, f, "")
    \/ \E c \in Conns : CreateRecv(c)
    \/ \E c \in Conns, f \in RegistryFiles : DeleteSend(c, f)
    \/ \E c \in Conns : DeleteRecv(c)
    \/ \E n \in NodeIds : NodeServe(n)
    \/ \E c \in Conns, f \in RegistryFiles, t \in UserIds : AddAccess(c, f, t, 1)
    \/ \E c \in Conns, pattern \in SearchPatterns : SearchScan(c, pattern)
    \/ \E c \in Conns : SearchInsert(c)

SpecSearchRace == SearchInit /\ [][SearchRaceNext]_vars

\* the step answers a SEARCH from the cache
CacheHit == search_log' # search_log /\ search_cache' = search_cache

\* C40: a SEARCH answered from the cache lists registered files only: a result
\* cached before a CREATE or DELETE does not outlive it, and a scan that started
\* before the change is not cached after it.
C40_CacheHitListsRegistered ==
    [][CacheHit =>
          \A i \in 1..Len(search_log'.lines) :
              lookup_file(file_table, search_log'.lines[i].name) # 0]_vars
====
